---- MODULE Spec2Model ----
(***************************************************************************)
(* A model of the conversation core of laserfocus-host:                    *)
(*   - LLMService._parse_stream      (src/src/core/llm_service.py)         *)
(*   - ConversationOrchestrator      (src/src/core/orchestrator.py)        *)
(*   - MCPCoordinator                (src/src/core/mcp_coordinator.py)     *)
(* Text is a sequence of one-character strings, so that markers can be     *)
(* split at any offset.                                                    *)
(***************************************************************************)
EXTENDS Integers, Sequences, FiniteSets, TLC

VARIABLES
    \* ---- stream interpreter (one _parse_stream generator) ----
    unsent,      \* text the adapter has produced but not yet yielded as a fragment
    nsegs,       \* number of text segments the adapter has produced so far
    received,    \* ghost: concatenation of all fragments yielded by the adapter
    buffer,      \* _parse_stream's local `buffer`
    out,         \* the parts yielded by _parse_stream so far, in order
    outRaw,      \* ghost: for each yielded part, the input text it stands for
    ppc,         \* "run" | "ended" (stream ended normally) | "raised" (adapter raised)
    cutInMarker, \* ghost: some fragment boundary fell strictly inside a start or end marker
    \* ---- conversation orchestrator ----
    histories,   \* self._histories: session id -> list of ChatMessage
    appendLog,   \* ghost: session id -> every message ever passed to _add_message
    turn,        \* session id -> the state of its handle_input generator
    nturns,      \* session id -> number of handle_input calls made for it
    ncalls,      \* number of model calls issued so far (all sessions)
    \* ---- tool provider coordinator ----
    tool_registry, \* self.tool_registry: qualified name -> ToolRegistryEntry
    clients,     \* self.clients: server id -> ClientSession (named by its server id)
    unit,        \* server id -> its config and the state of its _manage_server_connection task
    coord,       \* the position of __aenter__/initialize/__aexit__ and initialize's summary
    call         \* the caller of MCPCoordinator.call_tool and its last outcome

pvars == <<unsent, nsegs, received, buffer, out, outRaw, ppc, cutInMarker>>

hvars == <<histories, appendLog>>

tvars == <<turn, nturns, ncalls>>

cvars == <<tool_registry, clients, unit, coord, call>>

vars == <<pvars, hvars, tvars, cvars>>

(***************************************************************************)
(* Bounds                                                                  *)
(***************************************************************************)
MaxSegs == 3

\* appends per session explored by SpecHist
MaxAppends == 52

\* handle_input calls over all sessions
MaxTurns == 2

\* model calls over all sessions
MaxModelCalls == 2

\* direct calls of MCPCoordinator.call_tool
MaxToolCalls == 2

(***************************************************************************)
(* Text helpers (Python str semantics on sequences of characters)          *)
(***************************************************************************)
NL == "\n"

\* stands for the backtick character (a string literal cannot hold one)
BT == "^"

\* self._tool_start_delimiter: three backticks, the word tool, a newline
tool_start_delimiter == <<BT, BT, BT, "t", "o", "o", "l", NL>>

\* self._tool_end_delimiter: a newline, three backticks
tool_end_delimiter == <<NL, BT, BT, BT>>

\* s[i:j] with 0-based, end-exclusive indices, 0 <= i
Slice(s, i, j) == SubSeq(s, i + 1, j)

\* s[i:]
SliceFrom(s, i) == SubSeq(s, i + 1, Len(s))

\* str.find(pat, from): lowest 0-based index >= from where pat occurs, else -1
Find(s, pat, from) ==
    LET hits == {i \in from .. (Len(s) - Len(pat)) :
                    \A j \in 1 .. Len(pat) : s[i + j] = pat[j]}
    IN IF hits = {} THEN -1
       ELSE CHOOSE i \in hits : \A j \in hits : i <= j

IsSpace(c) == c \in {" ", NL}

\* str.strip(): drop leading and trailing whitespace
RECURSIVE LStrip(_)
LStrip(s) == IF s # <<>> /\ IsSpace(Head(s)) THEN LStrip(Tail(s)) ELSE s

RECURSIVE RStrip(_)
RStrip(s) ==
    IF s # <<>> /\ IsSpace(s[Len(s)]) THEN RStrip(SubSeq(s, 1, Len(s) - 1)) ELSE s

Strip(s) == RStrip(LStrip(s))

(***************************************************************************)
(* json.loads on the directive interior.  The interior is a sequence of    *)
(* tokens: braces, commas, a number "7", and three object members:         *)
(*   "T" is the member  "tool": <a registered qualified name>              *)
(*   "U" is the member  "tool": <a qualified name nobody registered>       *)
(*   "A" is the member  "arguments": {}                                    *)
(* JSON allows whitespace between tokens.                                  *)
(***************************************************************************)
KnownTool == <<"a", ":", "t">>

UnknownTool == <<"z", ":", "t">>

Members == {"T", "U", "A"}

JsonTokens(s) == SelectSeq(s, LAMBDA c : ~IsSpace(c))

\* member (, member)*  or nothing
WellFormedMembers(m) ==
    \/ m = <<>>
    \/ /\ Len(m) % 2 = 1
       /\ \A i \in 1 .. Len(m) :
            IF i % 2 = 1 THEN m[i] \in Members ELSE m[i] = ","

\* value of the last "tool" member (a later duplicate key wins)
LastTool(m) ==
    LET idx == {i \in 1 .. Len(m) : m[i] \in {"T", "U"}}
        last == CHOOSE i \in idx : \A j \in idx : j <= i
    IN IF m[last] = "T" THEN KnownTool ELSE UnknownTool

\* [ok: decoded, isdict, has_tool, has_args, tool]
JsonLoads(s) ==
    LET t == JsonTokens(s)
        inner == SubSeq(t, 2, Len(t) - 1)
        bad == [ok |-> FALSE, isdict |-> FALSE, has_tool |-> FALSE,
                has_args |-> FALSE, tool |-> <<>>]
    IN IF t = <<"7">>
       THEN [bad EXCEPT !.ok = TRUE]
       ELSE IF Len(t) >= 2 /\ t[1] = "{" /\ t[Len(t)] = "}" /\ WellFormedMembers(inner)
       THEN LET ht == \E i \in 1 .. Len(inner) : inner[i] \in {"T", "U"}
            IN [ok |-> TRUE, isdict |-> TRUE, has_tool |-> ht,
                has_args |-> \E i \in 1 .. Len(inner) : inner[i] = "A",
                tool |-> IF ht THEN LastTool(inner) ELSE <<>>]
       ELSE bad

(***************************************************************************)
(* Response parts                                                          *)
(***************************************************************************)
TextChunk(c) == [type |-> "TextChunk", content |-> c]

ToolCallIntent(name, args) ==
    [type |-> "ToolCallIntent", tool_name |-> name, arguments |-> args]

ErrorInfo(msg, det) == [type |-> "ErrorInfo", message |-> msg, details |-> det]

EndOfTurn == [type |-> "EndOfTurn"]

\* a decode that accepts any JSON object, without checking the two required keys
DecodeDirectiveNoKeyCheck(interior) ==
    LET json_content == Strip(interior)
        tool_data == JsonLoads(json_content)
    IN IF tool_data.ok /\ tool_data.isdict
       THEN ToolCallIntent(tool_data.tool, "{}")
       ELSE ErrorInfo("Failed to parse/validate tool call JSON.", json_content)

\* a decode that is content with the "tool" key alone
DecodeDirectiveToolKeyOnly(interior) ==
    LET json_content == Strip(interior)
        tool_data == JsonLoads(json_content)
    IN IF tool_data.ok /\ tool_data.isdict /\ tool_data.has_tool
       THEN ToolCallIntent(tool_data.tool, "{}")
       ELSE ErrorInfo("Failed to parse/validate tool call JSON.", json_content)

\* llm_service.py lines 229-236: strip, decode, validate
DecodeDirective(interior) ==
    LET json_content == Strip(interior)
        tool_data == JsonLoads(json_content)
    IN IF tool_data.ok /\ tool_data.isdict /\ tool_data.has_tool /\ tool_data.has_args
       THEN ToolCallIntent(tool_data.tool, "{}")
       ELSE ErrorInfo("Failed to parse/validate tool call JSON.", json_content)

\* an interpreter that yields marker-free text as soon as it arrives
NoStartMarkerEagerFlush(buf) ==
    [parts |-> IF buf # <<>> THEN <<TextChunk(buf)>> ELSE <<>>,
     raws |-> IF buf # <<>> THEN <<buf>> ELSE <<>>,
     buf |-> <<>>]

\* line 221: no start marker in the buffer: nothing is yielded, the buffer is kept
NoStartMarker(buf) == [parts |-> <<>>, raws |-> <<>>, buf |-> buf]

\* a scan that handles the first directive of the buffer and leaves the rest
\* for the pass of the next fragment
ScanBufferOneRegion(buf) ==
    LET start_index == Find(buf, tool_start_delimiter, 0)
    IN IF start_index = -1 THEN NoStartMarker(buf)
       ELSE
         LET pre == IF start_index > 0
                    THEN <<TextChunk(Slice(buf, 0, start_index))>> ELSE <<>>
             preRaw == IF start_index > 0 THEN <<Slice(buf, 0, start_index)>> ELSE <<>>
             b1 == SliceFrom(buf, start_index)
             end_index == Find(b1, tool_end_delimiter, Len(tool_start_delimiter))
         IN IF end_index = -1
            THEN [parts |-> pre, raws |-> preRaw, buf |-> b1]
            ELSE
              LET interior == Slice(b1, Len(tool_start_delimiter), end_index)
                  after == end_index + Len(tool_end_delimiter)
              IN [parts |-> pre \o <<DecodeDirective(interior)>>,
                  raws |-> preRaw \o <<Slice(b1, 0, after)>>,
                  buf |-> SliceFrom(b1, after)]

\* The while-loop of _parse_stream, run until it breaks (lines 219-237)
RECURSIVE ScanBuffer(_)
ScanBuffer(buf) ==
    LET start_index == Find(buf, tool_start_delimiter, 0)
    IN IF start_index = -1 THEN NoStartMarker(buf)
       ELSE
         LET pre == IF start_index > 0
                    THEN <<TextChunk(Slice(buf, 0, start_index))>> ELSE <<>>
             preRaw == IF start_index > 0 THEN <<Slice(buf, 0, start_index)>> ELSE <<>>
             b1 == SliceFrom(buf, start_index)
             end_index == Find(b1, tool_end_delimiter, Len(tool_start_delimiter))
         IN IF end_index = -1
            THEN [parts |-> pre, raws |-> preRaw, buf |-> b1]
            ELSE
              LET interior == Slice(b1, Len(tool_start_delimiter), end_index)
                  after == end_index + Len(tool_end_delimiter)
                  r == ScanBuffer(SliceFrom(b1, after))
              IN [parts |-> pre \o <<DecodeDirective(interior)>> \o r.parts,
                  raws |-> preRaw \o <<Slice(b1, 0, after)>> \o r.raws,
                  buf |-> r.buf]

\* a final flush that lets only prose out and drops an unfinished directive
FlushBufferProseOnly(buf) ==
    IF buf # <<>> /\ Find(buf, tool_start_delimiter, 0) = -1
    THEN <<TextChunk(buf)>> ELSE <<>>

\* line 238: at the end of the stream the rest of the buffer is one TextChunk
FlushBuffer(buf) == IF buf # <<>> THEN <<TextChunk(buf)>> ELSE <<>>

\* line 240: the adapter raised
AdapterError == ErrorInfo("Error receiving data from LLM adapter", <<>>)

(***************************************************************************)
(* Session histories (orchestrator.py lines 46-65)                         *)
(***************************************************************************)
Sessions == {"s1", "s2"}

\* self._max_history_len = 50
max_history_len == 50

\* Python's None in a text field (content, tool_name) and in the data field
None == <<"None">>

NoData == [none |-> TRUE]

ChatMessage(role, content, data, tool_name) ==
    [role |-> role, content |-> content, data |-> data, tool_name |-> tool_name]

\* _get_history: the session's list, created empty on first use
GetHistory(hs, session_id) ==
    IF session_id \in DOMAIN hs THEN hs ELSE hs @@ (session_id :> <<>>)

\* a truncation that drops the newest message instead of the oldest
RECURSIVE TruncateNewest(_)
TruncateNewest(history) ==
    IF Len(history) > max_history_len
    THEN TruncateNewest(SubSeq(history, 1, Len(history) - 1))
    ELSE history

\* lines 62-65: while len(history) > max: history.pop(0)
RECURSIVE Truncate(_)
Truncate(history) ==
    IF Len(history) > max_history_len THEN Truncate(Tail(history)) ELSE history

\* an _add_message of an orchestrator that keeps one history, that of the
\* session that spoke last
AddMessageSingleSession(hs, session_id, message) ==
    LET h1 == GetHistory(hs, session_id)
    IN (session_id :> Truncate(Append(h1[session_id], message)))

\* _add_message (lines 57-65)
AddMessage(hs, session_id, message) ==
    LET h1 == GetHistory(hs, session_id)
    IN [h1 EXCEPT ![session_id] = Truncate(Append(@, message))]

(***************************************************************************)
(* The adapter's text: a few segments, yielded in fragments cut anywhere   *)
(***************************************************************************)
Directive(interior) == tool_start_delimiter \o interior \o tool_end_delimiter

DirOk == Directive(<<" ", "{", "T", ",", "A", "}">>)

DirBadJson == Directive(<<"{", "T">>)

DirNoArgs == Directive(<<"{", "T", "}">>)

Segments == {<<"x">>, tool_start_delimiter, DirOk, DirBadJson, DirNoArgs}

IsPrefixOf(p, s) == Len(p) <= Len(s) /\ SubSeq(s, 1, Len(p)) = p

\* s ends with a proper, non-empty prefix of pat
EndsInsidePattern(s, pat) ==
    \E k \in 1 .. (Len(pat) - 1) :
        /\ k <= Len(s)
        /\ SubSeq(s, Len(s) - k + 1, Len(s)) = SubSeq(pat, 1, k)

\* ghost: the fragment boundary lies strictly inside a start marker, or strictly
\* inside the end marker of a pending directive, given the buffer left behind
CutInsideMarker(buf) ==
    IF IsPrefixOf(tool_start_delimiter, buf)
    THEN EndsInsidePattern(SliceFrom(buf, Len(tool_start_delimiter)), tool_end_delimiter)
    ELSE EndsInsidePattern(buf, tool_start_delimiter)

ParseVarsInit ==
    /\ unsent = <<>>
    /\ nsegs = 0
    /\ received = <<>>
    /\ buffer = <<>>
    /\ out = <<>>
    /\ outRaw = <<>>
    /\ ppc = "run"
    /\ cutInMarker = FALSE

HistVarsInit ==
    /\ histories = <<>>
    /\ appendLog = [s \in Sessions |-> <<>>]

\* the locals of a handle_input generator that has not been called; calls,
\* reprompts, base, fault and exec are ghosts (model calls issued, times line
\* 231 was reached, length of the append log at the call, injected exception,
\* outcome of each call_tool)
IdleTurn ==
    [pc |-> "idle", stream |-> <<>>, buf |-> <<>>, snapshot |-> <<>>,
     tools |-> {}, out |-> <<>>, intent |-> [type |-> "None"],
     calls |-> 0, reprompts |-> 0, base |-> 0, fault |-> "none", exec |-> <<>>,
     replies |-> <<>>, marks |-> <<>>, prev |-> "none"]

\* no handle_input call has been made
TurnVarsInit ==
    /\ turn = [s \in Sessions |-> IdleTurn]
    /\ nturns = [s \in Sessions |-> 0]
    /\ ncalls = 0

(***************************************************************************)
(* MCPCoordinator state (mcp_coordinator.py)                               *)
(***************************************************************************)
\* the server ids of the config file; ids are free-form JSON keys
Providers == {<<"a">>, <<"a", ":", "b">>, <<"c">>}

\* what a config entry can say: stdio with a command, stdio without one, sse,
\* anything else; or the entry lacks a field ServerConfig requires (name,
\* description, type, transport: lines 14-25)
Transports == {"stdio", "stdio_nocmd", "sse", "other", "incomplete"}

\* the config file: readable JSON, absent, or not JSON (lines 55-57)
ConfigFiles == {"ok", "missing", "unparseable"}

\* the tools a provider lists; tool names are free-form strings too
ToolsOf(server_id) ==
    IF server_id = <<"a">> THEN {<<"t">>, <<"b", ":", "t">>} ELSE {<<"t">>}

\* f"{server_id}:{tool.name}" (line 75)
QualifiedName(server_id, tool_name) == server_id \o <<":">> \o tool_name

\* ToolRegistryEntry (lines 76-84); the client is named by the unit that made it
RegistryEntry(server_id, tool_name) ==
    [qualified_name |-> QualifiedName(server_id, tool_name), server_id |-> server_id,
     client |-> server_id, name |-> tool_name]

\* a configured provider before initialize; pc is the position of its
\* _manage_server_connection task:
\*   "none" no task yet, "created" task created, not yet run,
\*   "handshake" inside stdio_client/ClientSession/session.initialize (106-109),
\*   "listing" awaiting client.list_tools (line 71),
\*   "ready" awaiting self._shutdown_event (line 113), "finished" task done.
\* event is its setup_event, wait_done whether its wait_task has completed,
\* cancel whether Task.cancel was called on it and not yet delivered;
\* listed and how are ghosts (list_tools succeeded; why the task ended)
NewUnit(transport) ==
    [transport |-> transport, pc |-> "none", event |-> FALSE, wait_done |-> FALSE,
     cancel |-> FALSE, listed |-> FALSE, how |-> "none"]

\* coord.pc: "new" before __aenter__, "waiting" in asyncio.wait (line 173),
\* "timed_out" the timeout has released the waiter and initialize has not yet
\* resumed, "returned" initialize and __aenter__ have returned, "exiting" in
\* __aexit__ waiting for the task group (line 253), "closed" __aexit__ done.
\* "failed" __aenter__ has raised the error of initialize (lines 235-240).
\* late is a ghost: the providers whose event was not set when the timeout fired;
\* file is the state of the config file, error what __aenter__ raised
NewCoord == [pc |-> "new", successful |-> {}, failed |-> {}, late |-> {},
             file |-> "ok", error |-> "none"]

\* the caller of call_tool: pc "idle" | "awaiting" (line 223); name, via (the
\* client used), tool (the name passed to it), outcome and at (coord.pc when the
\* call was made) describe the last call
IdleCall == [pc |-> "idle", n |-> 0, name |-> <<>>, via |-> <<>>, tool |-> <<>>,
             outcome |-> "none", at |-> "none"]

\* the registry once the coordinator has started provider "a" with its tools
RegistryReady ==
    [k \in {QualifiedName(<<"a">>, t) : t \in ToolsOf(<<"a">>)} |->
        RegistryEntry(<<"a">>, CHOOSE t \in ToolsOf(<<"a">>) : QualifiedName(<<"a">>, t) = k)]

\* a coordinator whose initialize has returned with provider "a" ready and the
\* other providers configured with an unsupported transport
CoordVarsStable ==
    /\ tool_registry = RegistryReady
    /\ clients = (<<"a">> :> <<"a">>)
    /\ unit = [p \in Providers |->
                 IF p = <<"a">>
                 THEN [NewUnit("stdio") EXCEPT !.pc = "ready", !.event = TRUE,
                                               !.wait_done = TRUE, !.listed = TRUE]
                 ELSE [NewUnit("sse") EXCEPT !.pc = "finished", !.event = TRUE,
                                             !.wait_done = TRUE, !.how = "unsupported"]]
    /\ coord = [NewCoord EXCEPT !.pc = "returned", !.successful = Providers]
    /\ call = IdleCall

ParseInit == ParseVarsInit /\ HistVarsInit /\ TurnVarsInit /\ CoordVarsStable

\* the model produces more text (not yet handed to the interpreter)
AdapterProduce ==
    /\ ppc = "run"
    /\ nsegs < MaxSegs
    /\ \E seg \in Segments : unsent' = unsent \o seg
    /\ nsegs' = nsegs + 1
    /\ UNCHANGED <<received, buffer, out, outRaw, ppc, cutInMarker>>
    /\ UNCHANGED <<hvars, tvars, cvars>>

\* one iteration of `async for chunk in raw_adapter_stream` (lines 217-237)
ParseRecv ==
    /\ ppc = "run"
    /\ \E k \in 1 .. Len(unsent) :
        LET chunk == SubSeq(unsent, 1, k) IN
        \E r \in {ScanBuffer(buffer \o chunk)} :
           /\ unsent' = SubSeq(unsent, k + 1, Len(unsent))
           /\ received' = received \o chunk
           /\ buffer' = r.buf
           /\ out' = out \o r.parts
           /\ outRaw' = outRaw \o r.raws
           /\ cutInMarker' = (cutInMarker \/ CutInsideMarker(r.buf))
    /\ UNCHANGED <<nsegs, ppc>>
    /\ UNCHANGED <<hvars, tvars, cvars>>

\* the adapter's stream ends (line 238)
ParseEnd ==
    /\ ppc = "run"
    /\ unsent = <<>>
    /\ out' = out \o FlushBuffer(buffer)
    /\ outRaw' = outRaw \o (IF buffer # <<>> THEN <<buffer>> ELSE <<>>)
    /\ ppc' = "ended"
    /\ UNCHANGED <<unsent, nsegs, received, buffer, cutInMarker>>
    /\ UNCHANGED <<hvars, tvars, cvars>>

\* the adapter raises instead of yielding the next fragment (lines 239-240)
ParseRaise ==
    /\ ppc = "run"
    /\ out' = out \o <<AdapterError>>
    /\ outRaw' = outRaw \o << <<>> >>
    /\ ppc' = "raised"
    /\ UNCHANGED <<unsent, nsegs, received, buffer, cutInMarker>>
    /\ UNCHANGED <<hvars, tvars, cvars>>

ParseNext == AdapterProduce \/ ParseRecv \/ ParseEnd \/ ParseRaise

SpecParse == ParseInit /\ [][ParseNext]_vars

(***************************************************************************)
(* _parse_stream on a response that holds one complete directive: the      *)
(* whole response is drawn at the start and reaches the interpreter in     *)
(* fragments cut anywhere.                                                 *)
(***************************************************************************)
\* interiors that are a JSON object with both keys (in either order, with an
\* unregistered name, with a repeated key, with whitespace around)
ObjectInteriors ==
    { <<"{", "T", ",", "A", "}">>,
      <<NL, " ", "{", "A", ",", " ", "U", "}", " ", NL>>,
      <<"{", "U", ",", "A", ",", "T", "}">> }

\* interiors that are anything else: empty, blank, cut short, an object that
\* lacks a key, a number, members without braces, a dangling comma
OtherInteriors ==
    { <<>>,
      <<" ">>,
      <<"{", "T">>,
      <<" ", "{", "T", "}", NL>>,
      <<"{", "A", "}">>,
      <<"{", "}">>,
      <<"7">>,
      <<"T", ",", "A">>,
      <<"{", "T", ",", "}">> }

Interiors == ObjectInteriors \cup OtherInteriors

\* prose around the directive
Around == {<<>>, <<"x">>}

DirectiveInit ==
    /\ ParseVarsInit!2 /\ ParseVarsInit!3 /\ ParseVarsInit!4 /\ ParseVarsInit!5
    /\ ParseVarsInit!6 /\ ParseVarsInit!7 /\ ParseVarsInit!8
    /\ unsent \in {pre \o Directive(interior) \o post :
                      pre \in Around, interior \in Interiors, post \in Around}
    /\ HistVarsInit /\ TurnVarsInit /\ CoordVarsStable

DirectiveNext == ParseRecv \/ ParseEnd \/ ParseRaise

SpecDirective == DirectiveInit /\ [][DirectiveNext]_vars

(***************************************************************************)
(* handle_input (orchestrator.py lines 138-260), one generator per session *)
(*   pc: "idle"            no call in progress                             *)
(*       "stream"          suspended, awaiting the next part of the stream *)
(*       "intent_yielded"  suspended at `yield part` of line 201           *)
(*       "tool"            suspended in call_tool, awaiting the provider   *)
(*       "ending"          suspended at the `yield ErrorInfo` of line 251  *)
(*       "done"            EndOfTurn yielded                               *)
(*       "crashed"         an exception left the generator                 *)
(***************************************************************************)
\* generate_response (llm_service.py lines 263-296) over a whole adapter stream:
\* the fragments, then a normal end or a raise
RECURSIVE FeedFragments(_, _, _)
FeedFragments(frags, buf, parts) ==
    IF frags = <<>> THEN [parts |-> parts, buf |-> buf]
    ELSE LET r == ScanBuffer(buf \o Head(frags))
         IN FeedFragments(Tail(frags), r.buf, parts \o r.parts)

\* a part that is none of TextChunk, ToolCallIntent, ErrorInfo
OddPart == [type |-> "Other"]

\* the stream of a service that is not the interpreter above (handle_input takes
\* whatever its llm_service yields, orchestrator.py lines 168-177): a TextChunk
\* per fragment, with a part of no known type after the first
ForeignStream(frags) ==
    <<TextChunk(frags[1]), OddPart>> \o [i \in 1 .. Len(frags) - 1 |-> TextChunk(frags[i + 1])]

\* generate_response lines 292-296: the call of the adapter raised
GenerateError == ErrorInfo("Failed to generate LLM response", <<>>)

GenerateResponse(resp) ==
    LET f == FeedFragments(resp.frags, <<>>, <<>>)
    IN IF resp.foreign THEN ForeignStream(resp.frags)
       ELSE IF resp.at_call THEN <<GenerateError>>
       ELSE IF resp.raises THEN f.parts \o <<AdapterError>>
       ELSE f.parts \o FlushBuffer(f.buf)

DirUnknown == Directive(<<"{", "U", ",", "A", "}">>)

\* what the model may answer to one call: the fragments the adapter streams and
\* whether it raises after them; one answer comes through a service of the
\* foreign kind; in the last the adapter raises when stream_generate is called
Responses ==
    { [frags |-> << <<"x">> >>, raises |-> FALSE, foreign |-> FALSE, at_call |-> FALSE],
      [frags |-> << <<"x">>, <<"y">> >>, raises |-> FALSE, foreign |-> FALSE, at_call |-> FALSE],
      [frags |-> << <<"x">> \o SubSeq(DirOk, 1, 5), SliceFrom(DirOk, 5) >>, raises |-> FALSE, foreign |-> FALSE, at_call |-> FALSE],
      [frags |-> << DirOk >>, raises |-> FALSE, foreign |-> FALSE, at_call |-> FALSE],
      [frags |-> << DirUnknown >>, raises |-> FALSE, foreign |-> FALSE, at_call |-> FALSE],
      [frags |-> << DirBadJson \o <<"x">> >>, raises |-> FALSE, foreign |-> FALSE, at_call |-> FALSE],
      [frags |-> << <<"x">> \o DirOk \o <<"y">> \o DirOk >>, raises |-> FALSE, foreign |-> FALSE, at_call |-> FALSE],
      [frags |-> << <<"x">> >>, raises |-> TRUE, foreign |-> FALSE, at_call |-> FALSE],
      [frags |-> <<>>, raises |-> FALSE, foreign |-> FALSE, at_call |-> FALSE],
      [frags |-> << <<"x">> \o DirBadJson \o <<"y">> >>, raises |-> FALSE, foreign |-> FALSE, at_call |-> FALSE],
      [frags |-> << <<"x">>, <<"y">> >>, raises |-> FALSE, foreign |-> TRUE, at_call |-> FALSE],
      [frags |-> <<>>, raises |-> TRUE, foreign |-> FALSE, at_call |-> TRUE] }

\* a tool message that carries no error payload
ToolErrorMessageNoPayload(intent, exc) ==
    ChatMessage("tool", None, NoData, intent.tool_name)

\* _execute_tool_call, except branch (lines 122-134)
ToolErrorMessage(intent, exc) ==
    ChatMessage("tool", None,
                [error |-> <<"Tool execution failed: ", exc.type>>, message |-> exc.message],
                intent.tool_name)

\* _execute_tool_call, normal return (lines 116-121)
ToolResultMessage(intent, result_data) ==
    ChatMessage("tool", None, [result |-> result_data], intent.tool_name)

\* call_tool line 216
ToolNotFound == [type |-> "ValueError", message |-> "not found in registry"]

\* what a provider's call_tool may raise
ProviderFailure == [type |-> "McpError", message |-> "provider failure"]

\* _get_tool_definitions (lines 67-87): one definition per registry entry
GetToolDefinitions ==
    {[qualified_name |-> tool_registry[k].qualified_name,
      server_id |-> tool_registry[k].server_id] : k \in DOMAIN tool_registry}

\* Top of the `while True` loop (lines 160-174) for session s, whose history is
\* hs[s]: either lines 161-162 raise (they stand before the `try`) and the
\* exception leaves the generator, or the model is called with a copy of the
\* history and the generator suspends on the stream.
LoopTop(s, t, hs) ==
    \/ /\ turn' = [turn EXCEPT ![s] = [t EXCEPT !.pc = "crashed", !.fault = "before_try"]]
       /\ UNCHANGED ncalls
    \/ /\ ncalls < MaxModelCalls
       /\ \E resp \in Responses :
            turn' = [turn EXCEPT ![s] =
                        [t EXCEPT !.pc = "stream",
                                  !.tools = GetToolDefinitions,
                                  !.snapshot = hs[s],
                                  !.buf = <<>>,
                                  !.stream = GenerateResponse(resp),
                                  !.calls = @ + 1,
                                  !.replies = Append(@, resp),
                                  !.marks = Append(@, Len(t.out))]]
       /\ ncalls' = ncalls + 1

RECURSIVE SumOver(_, _)
SumOver(f, S) ==
    IF S = {} THEN 0
    ELSE LET x == CHOOSE y \in S : TRUE IN f[x] + SumOver(f, S \ {x})

\* a handler that starts a call whatever the previous one is doing
HandlerAlwaysAccepts(s) == TRUE

\* handle_connection (websocket_handler.py lines 107-129): the connection of s
\* is the only caller for its session id (a fresh uuid, line 50) and takes its
\* next message only after the `async for` over the previous handle_input has
\* ended, by exhaustion or by an exception (line 147)
HandlerIdle(s) == turn[s].pc \in {"idle", "done", "crashed"}

\* how the previous handle_input call of a session went (ghost): the exception
\* that left it or was caught in it, an ErrorInfo of the stream, a failed tool
\* call, or none of these
PrevOutcome(t) ==
    IF t.pc = "idle" THEN "none"
    ELSE IF t.pc = "crashed" THEN "crashed"
    ELSE IF t.fault # "none" THEN t.fault
    ELSE IF \E i \in 1 .. Len(t.out) : t.out[i].type = "ErrorInfo" THEN "stream_error"
    ELSE IF \E i \in 1 .. Len(t.exec) : t.exec[i] # "returned" THEN "tool_error"
    ELSE "ok"

\* a call that starts on an emptied history
StartTurnOnClearedHistory(s) ==
    /\ HandlerIdle(s)
    /\ SumOver(nturns, Sessions) < MaxTurns
    /\ nturns' = [nturns EXCEPT ![s] = @ + 1]
    /\ LET user_message == ChatMessage("user", <<"u", ToString(nturns[s] + 1)>>, NoData, None)
           hs == [r \in DOMAIN histories \cup {s} |->
                     IF r = s THEN <<user_message>> ELSE histories[r]]
       IN /\ histories' = hs
          /\ appendLog' = [appendLog EXCEPT ![s] = Append(@, user_message)]
          /\ LoopTop(s, [IdleTurn EXCEPT !.base = Len(appendLog[s]),
                                         !.prev = PrevOutcome(turn[s])], hs)
    /\ UNCHANGED <<pvars, cvars>>

\* handle_input is called and advanced (lines 149-174)
StartTurn(s) ==
    /\ HandlerIdle(s)
    /\ SumOver(nturns, Sessions) < MaxTurns
    /\ nturns' = [nturns EXCEPT ![s] = @ + 1]
    /\ LET user_message == ChatMessage("user", <<"u", ToString(nturns[s] + 1)>>, NoData, None)
           hs == AddMessage(histories, s, user_message)
       IN /\ histories' = hs
          /\ appendLog' = [appendLog EXCEPT ![s] = Append(@, user_message)]
          /\ LoopTop(s, [IdleTurn EXCEPT !.base = Len(appendLog[s]),
                                         !.prev = PrevOutcome(turn[s])], hs)
    /\ UNCHANGED <<pvars, cvars>>

\* the `except Exception` of lines 248-254: yield ErrorInfo, then break
OrchestratorError == ErrorInfo("Orchestrator error", <<>>)

\* a text handler that buffers the chunk and forwards nothing
ConsumeTextBuffered(s) ==
    LET t == turn[s] IN
    /\ t.pc = "stream" /\ t.stream # <<>>
    /\ Head(t.stream).type = "TextChunk"
    /\ turn' = [turn EXCEPT ![s] =
                  [t EXCEPT !.buf = @ \o Head(t.stream).content,
                            !.stream = Tail(@)]]
    /\ UNCHANGED <<pvars, hvars, nturns, ncalls, cvars>>

\* the stream yields a TextChunk (lines 180-183)
ConsumeText(s) ==
    LET t == turn[s] IN
    /\ t.pc = "stream" /\ t.stream # <<>>
    /\ Head(t.stream).type = "TextChunk"
    /\ turn' = [turn EXCEPT ![s] =
                  [t EXCEPT !.buf = @ \o Head(t.stream).content,
                            !.out = Append(@, Head(t.stream)),
                            !.stream = Tail(@)]]
    /\ UNCHANGED <<pvars, hvars, nturns, ncalls, cvars>>

\* an intent handler that drops the prose pending before the directive
ConsumeIntentWithoutFlush(s) ==
    LET t == turn[s] IN
    /\ t.pc = "stream" /\ t.stream # <<>>
    /\ Head(t.stream).type = "ToolCallIntent"
    /\ turn' = [turn EXCEPT ![s] =
                  [t EXCEPT !.pc = "intent_yielded",
                            !.buf = <<>>,
                            !.intent = Head(t.stream),
                            !.out = Append(@, Head(t.stream)),
                            !.stream = Tail(@)]]
    /\ UNCHANGED <<pvars, hvars, nturns, ncalls, cvars>>

\* an intent handler that records an assistant message whether or not any
\* prose came before the directive
ConsumeIntentAlwaysRecords(s) ==
    LET t == turn[s]
        assistant_message == ChatMessage("assistant", t.buf, NoData, None)
    IN
    /\ t.pc = "stream" /\ t.stream # <<>>
    /\ Head(t.stream).type = "ToolCallIntent"
    /\ histories' = AddMessage(histories, s, assistant_message)
    /\ appendLog' = [appendLog EXCEPT ![s] = Append(@, assistant_message)]
    /\ turn' = [turn EXCEPT ![s] =
                  [t EXCEPT !.pc = "intent_yielded",
                            !.buf = <<>>,
                            !.intent = Head(t.stream),
                            !.out = Append(@, Head(t.stream)),
                            !.stream = Tail(@)]]
    /\ UNCHANGED <<pvars, nturns, ncalls, cvars>>

\* an intent handler that goes on to the tool before the caller has seen the
\* intent
ConsumeIntentCallsBeforeYield(s) ==
    LET t == turn[s]
        assistant_message == ChatMessage("assistant", t.buf, NoData, None)
    IN
    /\ t.pc = "stream" /\ t.stream # <<>>
    /\ Head(t.stream).type = "ToolCallIntent"
    /\ IF t.buf # <<>>
       THEN /\ histories' = AddMessage(histories, s, assistant_message)
            /\ appendLog' = [appendLog EXCEPT ![s] = Append(@, assistant_message)]
       ELSE UNCHANGED hvars
    /\ turn' = [turn EXCEPT ![s] =
                  [t EXCEPT !.pc = "intent_yielded",
                            !.buf = <<>>,
                            !.intent = Head(t.stream),
                            !.stream = Tail(@)]]
    /\ UNCHANGED <<pvars, nturns, ncalls, cvars>>

\* the stream yields a ToolCallIntent (lines 185-201): pending text becomes an
\* assistant message, the intent is yielded
ConsumeIntent(s) ==
    LET t == turn[s]
        assistant_message == ChatMessage("assistant", t.buf, NoData, None)
    IN
    /\ t.pc = "stream" /\ t.stream # <<>>
    /\ Head(t.stream).type = "ToolCallIntent"
    /\ IF t.buf # <<>>
       THEN /\ histories' = AddMessage(histories, s, assistant_message)
            /\ appendLog' = [appendLog EXCEPT ![s] = Append(@, assistant_message)]
       ELSE UNCHANGED hvars
    /\ turn' = [turn EXCEPT ![s] =
                  [t EXCEPT !.pc = "intent_yielded",
                            !.buf = <<>>,
                            !.intent = Head(t.stream),
                            !.out = Append(@, Head(t.stream)),
                            !.stream = Tail(@)]]
    /\ UNCHANGED <<pvars, nturns, ncalls, cvars>>

\* an error handler that closes the assistant text collected so far
ConsumeErrorSplitsText(s) ==
    LET t == turn[s]
        assistant_message == ChatMessage("assistant", t.buf, NoData, None)
    IN
    /\ t.pc = "stream" /\ t.stream # <<>>
    /\ Head(t.stream).type = "ErrorInfo"
    /\ IF t.buf # <<>>
       THEN /\ histories' = AddMessage(histories, s, assistant_message)
            /\ appendLog' = [appendLog EXCEPT ![s] = Append(@, assistant_message)]
       ELSE UNCHANGED hvars
    /\ turn' = [turn EXCEPT ![s] =
                  [t EXCEPT !.out = Append(@, Head(t.stream)),
                            !.buf = <<>>,
                            !.stream = Tail(@)]]
    /\ UNCHANGED <<pvars, nturns, ncalls, cvars>>

\* an error handler that forwards the ErrorInfo and gives the response up
ConsumeErrorGivesUp(s) ==
    LET t == turn[s] IN
    /\ t.pc = "stream" /\ t.stream # <<>>
    /\ Head(t.stream).type = "ErrorInfo"
    /\ turn' = [turn EXCEPT ![s] =
                  [t EXCEPT !.out = Append(@, Head(t.stream)),
                            !.buf = <<>>,
                            !.stream = <<>>]]
    /\ UNCHANGED <<pvars, hvars, nturns, ncalls, cvars>>

\* the stream yields an ErrorInfo (lines 212-215): forwarded, the loop goes on
ConsumeError(s) ==
    LET t == turn[s] IN
    /\ t.pc = "stream" /\ t.stream # <<>>
    /\ Head(t.stream).type = "ErrorInfo"
    /\ turn' = [turn EXCEPT ![s] =
                  [t EXCEPT !.out = Append(@, Head(t.stream)),
                            !.stream = Tail(@)]]
    /\ UNCHANGED <<pvars, hvars, nturns, ncalls, cvars>>

\* what handle_input yields for a part of no known type (lines 218-222)
UnknownPartError == ErrorInfo("Received unknown part type from LLM stream", None)

\* the stream yields a part of no known type (lines 218-222): an ErrorInfo is
\* yielded in its place, the loop goes on
ConsumeUnknown(s) ==
    LET t == turn[s] IN
    /\ t.pc = "stream" /\ t.stream # <<>>
    /\ Head(t.stream).type \notin {"TextChunk", "ToolCallIntent", "ErrorInfo"}
    /\ turn' = [turn EXCEPT ![s] =
                  [t EXCEPT !.out = Append(@, UnknownPartError),
                            !.stream = Tail(@)]]
    /\ UNCHANGED <<pvars, hvars, nturns, ncalls, cvars>>

\* an exception is raised inside the `try` while a part is handled (lines 248-254)
FaultInTry(s) ==
    LET t == turn[s] IN
    /\ t.pc = "stream" /\ t.stream # <<>>
    /\ turn' = [turn EXCEPT ![s] =
                  [t EXCEPT !.pc = "ending",
                            !.fault = "in_try",
                            !.out = Append(@, OrchestratorError),
                            !.stream = <<>>]]
    /\ UNCHANGED <<pvars, hvars, nturns, ncalls, cvars>>

\* the caller resumes the generator after the ErrorInfo of line 251: line 259
YieldEndAfterError(s) ==
    LET t == turn[s] IN
    /\ t.pc = "ending"
    /\ turn' = [turn EXCEPT ![s] = [t EXCEPT !.pc = "done", !.out = Append(@, EndOfTurn)]]
    /\ UNCHANGED <<pvars, hvars, nturns, ncalls, cvars>>

\* an end of stream that drops the pending assistant text
StreamEndWithoutFlush(s) ==
    LET t == turn[s] IN
    /\ t.pc = "stream" /\ t.stream = <<>>
    /\ turn' = [turn EXCEPT ![s] =
                  [t EXCEPT !.pc = "done", !.buf = <<>>, !.out = Append(@, EndOfTurn)]]
    /\ UNCHANGED <<pvars, hvars, nturns, ncalls, cvars>>

\* an end of stream that calls the model again when the response ended in an
\* error of the adapter
StreamEndRetriesAfterError(s) ==
    LET t == turn[s] IN
    /\ t.pc = "stream" /\ t.stream = <<>>
    /\ IF t.out # <<>> /\ t.out[Len(t.out)] \in {AdapterError, GenerateError}
       THEN /\ LoopTop(s, [t EXCEPT !.reprompts = @ + 1], histories)
            /\ UNCHANGED <<hvars, nturns>>
       ELSE /\ turn' = [turn EXCEPT ![s] =
                          [t EXCEPT !.pc = "done", !.buf = <<>>,
                                    !.out = Append(@, EndOfTurn)]]
            /\ UNCHANGED <<hvars, nturns, ncalls>>
    /\ UNCHANGED <<pvars, cvars>>

\* the stream ends without a tool call (lines 233-246, 259)
StreamEnd(s) ==
    LET t == turn[s]
        final_assistant_message == ChatMessage("assistant", t.buf, NoData, None)
    IN
    /\ t.pc = "stream" /\ t.stream = <<>>
    /\ IF t.buf # <<>>
       THEN /\ histories' = AddMessage(histories, s, final_assistant_message)
            /\ appendLog' = [appendLog EXCEPT ![s] = Append(@, final_assistant_message)]
       ELSE UNCHANGED hvars
    /\ turn' = [turn EXCEPT ![s] =
                  [t EXCEPT !.pc = "done", !.buf = <<>>, !.out = Append(@, EndOfTurn)]]
    /\ UNCHANGED <<pvars, nturns, ncalls, cvars>>

\* a loop that forgets to record the tool message before it re-prompts
RepromptWithoutToolMessage(s, tool_result_message, outcome) ==
    LET t == turn[s]
    IN /\ UNCHANGED hvars
       /\ LoopTop(s, [t EXCEPT !.reprompts = @ + 1, !.stream = <<>>,
                               !.exec = Append(@, outcome)], histories)

\* a loop that records the tool message and goes on with the rest of the same
\* response
AppendToolMessageAndGoOn(s, tool_result_message, outcome) ==
    LET t == turn[s]
    IN /\ histories' = AddMessage(histories, s, tool_result_message)
       /\ appendLog' = [appendLog EXCEPT ![s] = Append(@, tool_result_message)]
       /\ turn' = [turn EXCEPT ![s] =
                     [t EXCEPT !.pc = "stream", !.exec = Append(@, outcome)]]
       /\ UNCHANGED ncalls

\* lines 206-210, 229-231: the tool message is appended, the inner loop is left
\* and the outer loop restarts
AppendToolMessageAndReprompt(s, tool_result_message, outcome) ==
    LET t == turn[s]
        hs == AddMessage(histories, s, tool_result_message)
    IN /\ histories' = hs
       /\ appendLog' = [appendLog EXCEPT ![s] = Append(@, tool_result_message)]
       /\ LoopTop(s, [t EXCEPT !.reprompts = @ + 1, !.stream = <<>>,
                               !.exec = Append(@, outcome)], hs)

\* the caller resumes the generator after the intent: _execute_tool_call runs
\* call_tool; an unknown name raises at once (mcp_coordinator.py lines 215-216)
CallUnknownTool(s) ==
    LET t == turn[s] IN
    /\ t.pc = "intent_yielded"
    /\ t.intent.tool_name \notin DOMAIN tool_registry
    /\ AppendToolMessageAndReprompt(s, ToolErrorMessage(t.intent, ToolNotFound), "not_found")
    /\ UNCHANGED <<pvars, nturns, cvars>>

\* a call_tool that lets one call at a time through to the providers
CallKnownToolUnderGlobalLock(s) ==
    LET t == turn[s] IN
    /\ t.pc = "intent_yielded"
    /\ t.intent.tool_name \in DOMAIN tool_registry
    /\ \A r \in Sessions : turn[r].pc # "tool"
    /\ turn' = [turn EXCEPT ![s] = [t EXCEPT !.pc = "tool"]]
    /\ UNCHANGED <<pvars, hvars, nturns, ncalls, cvars>>

\* ... a registered name is passed to the provider's connection (line 223)
CallKnownTool(s) ==
    LET t == turn[s] IN
    /\ t.pc = "intent_yielded"
    /\ t.intent.tool_name \in DOMAIN tool_registry
    /\ turn' = [turn EXCEPT ![s] = [t EXCEPT !.pc = "tool"]]
    /\ UNCHANGED <<pvars, hvars, nturns, ncalls, cvars>>

\* the provider returns a result (orchestrator.py lines 115-121)
ToolReturns(s) ==
    LET t == turn[s] IN
    /\ t.pc = "tool"
    /\ AppendToolMessageAndReprompt(s, ToolResultMessage(t.intent, <<"4">>), "returned")
    /\ UNCHANGED <<pvars, nturns, cvars>>

\* what a call-level deadline would raise
DeadlineExceeded == [type |-> "TimeoutError", message |-> "deadline exceeded"]

\* a call_tool that is given up when a deadline passes without an answer
ToolCallTimesOut(s) ==
    LET t == turn[s] IN
    /\ t.pc = "tool"
    /\ AppendToolMessageAndReprompt(s, ToolErrorMessage(t.intent, DeadlineExceeded), "timed_out")
    /\ UNCHANGED <<pvars, nturns, cvars>>

\* the provider's call raises (mcp_coordinator.py lines 225-227)
ToolRaises(s) ==
    LET t == turn[s] IN
    /\ t.pc = "tool"
    /\ AppendToolMessageAndReprompt(s, ToolErrorMessage(t.intent, ProviderFailure), "provider_raised")
    /\ UNCHANGED <<pvars, nturns, cvars>>

TurnInit == ParseVarsInit /\ HistVarsInit /\ TurnVarsInit /\ CoordVarsStable

TurnNext ==
    \E s \in Sessions :
        \/ StartTurn(s)
        \/ ConsumeText(s)
        \/ ConsumeIntent(s)
        \/ ConsumeError(s)
        \/ ConsumeUnknown(s)
        \/ FaultInTry(s)
        \/ YieldEndAfterError(s)
        \/ StreamEnd(s)
        \/ CallUnknownTool(s)
        \/ CallKnownTool(s)
        \/ ToolReturns(s)
        \/ ToolRaises(s)

Spec == TurnInit /\ [][TurnNext]_vars

(***************************************************************************)
(* SpecHungTool: the turns of the other sessions while the turn of one     *)
(* session is suspended in call_tool (orchestrator.py line 116,            *)
(* mcp_coordinator.py line 223) on a provider that does not answer.  Every *)
(* step of another session's generator is taken when its caller asks for   *)
(* the next part, and that session's own tool calls are answered; the      *)
(* suspended call stays unanswered for as long as the behaviour lasts.     *)
(***************************************************************************)
HungSession == "s1"

\* the generator of HungSession after StartTurn, ConsumeIntent, CallKnownTool
\* on a reply that is one directive
HungTurn ==
    LET resp == [frags |-> << DirOk >>, raises |-> FALSE, foreign |-> FALSE, at_call |-> FALSE]
        intent == ToolCallIntent(KnownTool, "{}")
        user_message == ChatMessage("user", <<"u", "1">>, NoData, None)
    IN [IdleTurn EXCEPT !.pc = "tool",
                        !.tools = {[qualified_name |-> RegistryReady[k].qualified_name,
                                    server_id |-> RegistryReady[k].server_id] :
                                      k \in DOMAIN RegistryReady},
                        !.snapshot = <<user_message>>,
                        !.out = <<intent>>,
                        !.intent = intent,
                        !.calls = 1,
                        !.replies = <<resp>>,
                        !.marks = <<0>>]

\* the model's budget of model calls counts from this state on
HungInit ==
    /\ ParseVarsInit
    /\ CoordVarsStable
    /\ histories = (HungSession :> <<ChatMessage("user", <<"u", "1">>, NoData, None)>>)
    /\ appendLog = [s \in Sessions |->
                       IF s = HungSession
                       THEN <<ChatMessage("user", <<"u", "1">>, NoData, None)>>
                       ELSE <<>>]
    /\ turn = [s \in Sessions |-> IF s = HungSession THEN HungTurn ELSE IdleTurn]
    /\ nturns = [s \in Sessions |-> IF s = HungSession THEN 1 ELSE 0]
    /\ ncalls = 0

\* the steps of the generator of s and of its own tool calls
TurnRuns(s) ==
    \/ ConsumeText(s)
    \/ ConsumeIntent(s)
    \/ ConsumeError(s)
    \/ ConsumeUnknown(s)
    \/ YieldEndAfterError(s)
    \/ StreamEnd(s)
    \/ CallUnknownTool(s)
    \/ CallKnownTool(s)
    \/ ToolReturns(s)
    \/ ToolRaises(s)

\* the steps of every session but the suspended one
HungNext ==
    \E s \in Sessions \ {HungSession} :
        \/ StartTurn(s)
        \/ ConsumeText(s)
        \/ ConsumeIntent(s)
        \/ ConsumeError(s)
        \/ ConsumeUnknown(s)
        \/ FaultInTry(s)
        \/ YieldEndAfterError(s)
        \/ StreamEnd(s)
        \/ CallUnknownTool(s)
        \/ CallKnownTool(s)
        \/ ToolReturns(s)
        \/ ToolRaises(s)

SpecHungTool ==
    /\ HungInit
    /\ [][HungNext]_vars
    /\ \A s \in Sessions \ {HungSession} : WF_vars(TurnRuns(s))

(***************************************************************************)
(* SpecFairTurns: the turns of Spec when every caller consumes its         *)
(* generator to the end, every model stream ends and every tool call       *)
(* returns or raises (orchestrator.py lines 160-259): each step of a       *)
(* generator that stays possible is taken.                                  *)
(***************************************************************************)
SpecFairTurns ==
    /\ TurnInit
    /\ [][TurnNext]_vars
    /\ \A s \in Sessions : WF_vars(TurnRuns(s))

(***************************************************************************)
(* SpecCoord: one coordinator lifetime                                      *)
(* `async with MCPCoordinator(path) as c: ... await c.call_tool(...) ...`   *)
(***************************************************************************)
\* line 135: key.startswith(f"{server_id}:")
KeyStartsWithId(key, server_id) == IsPrefixOf(server_id \o <<":">>, key)

\* the `finally` of _manage_server_connection, lines 135-138
RegistryAfterFinally(server_id, reg) ==
    [k \in {key \in DOMAIN reg : ~KeyStartsWithId(key, server_id)} |-> reg[k]]

\* the `finally` of _manage_server_connection, lines 133-134; a unit's session is
\* named by the unit, so `is client_session_ref` holds for its own entry only
ClientsAfterFinally(server_id, cl) ==
    [k \in DOMAIN cl \ {server_id} |-> cl[k]]

\* a unit whose task ends and leaves its registry entries behind
UnitEndsKeepingEntries(server_id, how) ==
    /\ unit' = [unit EXCEPT ![server_id] =
                  [@ EXCEPT !.pc = "finished", !.how = how, !.cancel = FALSE,
                            !.event = IF how = "cancelled" THEN @ ELSE TRUE]]
    /\ tool_registry' = tool_registry
    /\ clients' = ClientsAfterFinally(server_id, clients)

\* a unit whose task, once over, is started again
UnitEndsAndRestarts(server_id, how) ==
    /\ unit' = [unit EXCEPT ![server_id] =
                  [@ EXCEPT !.pc = "created", !.how = how, !.cancel = FALSE]]
    /\ tool_registry' = RegistryAfterFinally(server_id, tool_registry)
    /\ clients' = ClientsAfterFinally(server_id, clients)

\* the task of server_id ends: except branch (127-131) or fall-through, then finally
UnitEnds(server_id, how) ==
    /\ unit' = [unit EXCEPT ![server_id] =
                  [@ EXCEPT !.pc = "finished", !.how = how, !.cancel = FALSE,
                            !.event = IF how = "cancelled" THEN @ ELSE TRUE]]
    /\ tool_registry' = RegistryAfterFinally(server_id, tool_registry)
    /\ clients' = ClientsAfterFinally(server_id, clients)

\* every task created by initialize has run its first step; tasks are scheduled
\* when created and run, in order, as soon as initialize suspends in line 173
AllStarted == \A p \in Providers : unit[p].pc \notin {"none", "created"}

\* _load_config (lines 52-66): open or json.load raises, or ServerConfig(**data)
\* raises for an entry without a required field; each is turned into ValueError
LoadConfigRaises ==
    \/ coord.file # "ok"
    \/ \E p \in Providers : unit[p].transport = "incomplete"

\* a start-up that reports the error but has started the units all the same
InitializeFailsAfterStartingUnits ==
    /\ coord.pc = "new"
    /\ LoadConfigRaises
    /\ unit' = [p \in Providers |-> [unit[p] EXCEPT !.pc = "created"]]
    /\ coord' = [coord EXCEPT !.pc = "failed", !.error = "ValueError"]
    /\ UNCHANGED <<tool_registry, clients, call>>
    /\ UNCHANGED <<pvars, hvars, tvars>>

\* __aenter__ when initialize raises in _load_config (line 143, before any task
\* is created): the shutdown event is set, the empty task group is left, and
\* the error is raised to the caller (lines 235-240)
InitializeFails ==
    /\ coord.pc = "new"
    /\ LoadConfigRaises
    /\ coord' = [coord EXCEPT !.pc = "failed", !.error = "ValueError"]
    /\ UNCHANGED <<tool_registry, clients, unit, call>>
    /\ UNCHANGED <<pvars, hvars, tvars>>

\* __aenter__ and initialize up to the `await asyncio.wait` of line 173
InitializeStart ==
    /\ coord.pc = "new"
    /\ ~LoadConfigRaises
    /\ unit' = [p \in Providers |-> [unit[p] EXCEPT !.pc = "created"]]
    /\ coord' = [coord EXCEPT !.pc = "waiting"]
    /\ UNCHANGED <<tool_registry, clients, call>>
    /\ UNCHANGED <<pvars, hvars, tvars>>

\* the first step of a unit's task (lines 93-106, or 115-123 and the finally)
UnitFirstStep(p) ==
    /\ unit[p].pc = "created"
    /\ CASE unit[p].transport = "stdio" ->
              /\ unit' = [unit EXCEPT ![p].pc = "handshake"]
              /\ UNCHANGED <<tool_registry, clients>>
         [] unit[p].transport = "stdio_nocmd" -> UnitEnds(p, "error")
         [] OTHER -> UnitEnds(p, "unsupported")
    /\ UNCHANGED <<coord, call>>
    /\ UNCHANGED <<pvars, hvars, tvars>>

\* the process is spawned and session.initialize returns (lines 106-110)
UnitHandshakeOk(p) ==
    /\ AllStarted
    /\ unit[p].pc = "handshake"
    /\ ~unit[p].cancel
    /\ clients' = [k \in DOMAIN clients \cup {p} |-> IF k = p THEN p ELSE clients[k]]
    /\ unit' = [unit EXCEPT ![p].pc = "listing"]
    /\ UNCHANGED <<tool_registry, coord, call>>
    /\ UNCHANGED <<pvars, hvars, tvars>>

\* spawning the process or the handshake raises (lines 127-138)
UnitHandshakeFails(p) ==
    /\ AllStarted
    /\ unit[p].pc = "handshake"
    /\ ~unit[p].cancel
    /\ UnitEnds(p, "error")
    /\ UNCHANGED <<coord, call>>
    /\ UNCHANGED <<pvars, hvars, tvars>>

\* _discover_tools_for_client (lines 68-89), then setup_event.set() and the
\* await of line 113; a failing list_tools is swallowed (line 88)
UnitListed(p) ==
    /\ unit[p].pc = "listing"
    /\ ~unit[p].cancel
    /\ \E ok \in BOOLEAN :
         LET new == IF ok THEN {QualifiedName(p, t) : t \in ToolsOf(p)} ELSE {}
             tool(k) == CHOOSE t \in ToolsOf(p) : QualifiedName(p, t) = k
         IN /\ tool_registry' =
                  [k \in DOMAIN tool_registry \cup new |->
                      IF k \in new THEN RegistryEntry(p, tool(k)) ELSE tool_registry[k]]
            /\ unit' = [unit EXCEPT ![p] =
                          [@ EXCEPT !.pc = "ready", !.event = TRUE, !.listed = ok]]
    /\ UNCHANGED <<clients, coord, call>>
    /\ UNCHANGED <<pvars, hvars, tvars>>

\* the wait_task of p (line 165) resumes after its event was set and completes
WaitTaskWakes(p) ==
    /\ coord.pc = "waiting"
    /\ unit[p].event
    /\ ~unit[p].wait_done
    /\ unit' = [unit EXCEPT ![p].wait_done = TRUE]
    /\ UNCHANGED <<tool_registry, clients, coord, call>>
    /\ UNCHANGED <<pvars, hvars, tvars>>

\* the timeout of asyncio.wait (line 173) fires and releases the waiter; the
\* wait_tasks whose event is already set were scheduled before initialize's own
\* wake-up and complete first, tasks made runnable in the same loop iteration
\* still run before initialize resumes
TimeoutFires ==
    /\ coord.pc = "waiting"
    /\ AllStarted
    /\ \E p \in Providers : ~unit[p].wait_done
    /\ unit' = [p \in Providers |-> [unit[p] EXCEPT !.wait_done = unit[p].event]]
    /\ coord' = [coord EXCEPT !.pc = "timed_out",
                              !.late = {p \in Providers : ~unit[p].event}]
    /\ UNCHANGED <<tool_registry, clients, call>>
    /\ UNCHANGED <<pvars, hvars, tvars>>

\* initialize resumes from asyncio.wait and runs to its end (lines 173-211):
\* pending wait_tasks are reported failed and their units cancelled, done ones
\* are reported successful; __aenter__ returns
InitializeReturns ==
    /\ \/ coord.pc = "timed_out"
       \/ coord.pc = "waiting" /\ \A p \in Providers : unit[p].wait_done
    /\ LET pending == {p \in Providers : ~unit[p].wait_done}
       IN /\ coord' = [coord EXCEPT !.pc = "returned",
                                    !.failed = pending,
                                    !.successful = Providers \ pending]
          /\ unit' = [p \in Providers |->
                        IF p \in pending /\ unit[p].pc # "finished"
                        THEN [unit[p] EXCEPT !.cancel = TRUE]
                        ELSE unit[p]]
    /\ UNCHANGED <<tool_registry, clients, call>>
    /\ UNCHANGED <<pvars, hvars, tvars>>

\* the CancelledError requested in line 186 is delivered to the unit, its
\* context managers exit, lines 125-126 and the finally run
UnitCancelled(p) ==
    /\ unit[p].cancel
    /\ unit[p].pc \in {"handshake", "listing", "ready"}
    /\ UnitEnds(p, "cancelled")
    /\ UNCHANGED <<coord, call>>
    /\ UNCHANGED <<pvars, hvars, tvars>>

\* __aexit__ up to the await of line 253: the shutdown event is set
AExitStart ==
    /\ coord.pc = "returned"
    /\ coord' = [coord EXCEPT !.pc = "exiting"]
    /\ UNCHANGED <<tool_registry, clients, unit, call>>
    /\ UNCHANGED <<pvars, hvars, tvars>>

\* a ready unit wakes from line 113, its context managers exit, the finally runs
UnitShutdown(p) ==
    /\ coord.pc = "exiting"
    /\ unit[p].pc = "ready"
    /\ ~unit[p].cancel
    /\ UnitEnds(p, "shutdown")
    /\ UNCHANGED <<coord, call>>
    /\ UNCHANGED <<pvars, hvars, tvars>>

\* an __aexit__ that clears the shared maps without waiting for the units
AExitDoneWithoutWaiting ==
    /\ coord.pc = "exiting"
    /\ tool_registry' = <<>>
    /\ clients' = <<>>
    /\ coord' = [coord EXCEPT !.pc = "closed"]
    /\ UNCHANGED <<unit, call>>
    /\ UNCHANGED <<pvars, hvars, tvars>>

\* the task group has no task left: lines 257-260
AExitDone ==
    /\ coord.pc = "exiting"
    /\ \A p \in Providers : unit[p].pc = "finished"
    /\ tool_registry' = <<>>
    /\ clients' = <<>>
    /\ coord' = [coord EXCEPT !.pc = "closed"]
    /\ UNCHANGED <<unit, call>>
    /\ UNCHANGED <<pvars, hvars, tvars>>

\* names a caller may pass to call_tool: each provider's tools, and a name that
\* no provider has
Names ==
    UNION {{QualifiedName(p, t) : t \in ToolsOf(p)} : p \in Providers} \cup {UnknownTool}

\* call_tool lines 215-223: the lookup; an unknown name raises ValueError, a
\* known one is passed to the entry's client
CallToolStart(name) ==
    /\ coord.pc \in {"returned", "exiting", "closed"}
    /\ call.pc = "idle"
    /\ call.n < MaxToolCalls
    /\ IF name \notin DOMAIN tool_registry
       THEN call' = [pc |-> "idle", n |-> call.n + 1, name |-> name, via |-> <<>>,
                     tool |-> <<>>, outcome |-> "not_found", at |-> coord.pc]
       ELSE LET tool_entry == tool_registry[name]
            IN call' = [pc |-> "awaiting", n |-> call.n + 1, name |-> name,
                        via |-> tool_entry.client, tool |-> tool_entry.name,
                        outcome |-> "none", at |-> coord.pc]
    /\ UNCHANGED <<tool_registry, clients, unit, coord>>
    /\ UNCHANGED <<pvars, hvars, tvars>>

\* a call_tool that forgets the entry of a tool whose provider has failed
CallToolEvictsOnError(outcome) ==
    /\ call.pc = "awaiting"
    /\ call' = [call EXCEPT !.pc = "idle", !.outcome = outcome]
    /\ tool_registry' =
          IF outcome = "provider_error"
          THEN [k \in DOMAIN tool_registry \ {call.name} |-> tool_registry[k]]
          ELSE tool_registry
    /\ UNCHANGED <<clients, unit, coord>>
    /\ UNCHANGED <<pvars, hvars, tvars>>

\* call_tool lines 223-227: client.call_tool returns ("result") or raises
\* ("provider_error"), and so does call_tool
CallToolEnds(outcome) ==
    /\ call.pc = "awaiting"
    /\ call' = [call EXCEPT !.pc = "idle", !.outcome = outcome]
    /\ UNCHANGED <<tool_registry, clients, unit, coord>>
    /\ UNCHANGED <<pvars, hvars, tvars>>

CoordInit ==
    /\ ParseVarsInit /\ HistVarsInit /\ TurnVarsInit
    /\ tool_registry = <<>>
    /\ clients = <<>>
    /\ unit \in [Providers -> {NewUnit(tr) : tr \in Transports}]
    /\ coord \in {[NewCoord EXCEPT !.file = f] : f \in ConfigFiles}
    /\ call = IdleCall

CoordNext ==
    \/ InitializeFails
    \/ InitializeStart
    \/ \E p \in Providers :
          \/ UnitFirstStep(p)
          \/ UnitHandshakeOk(p)
          \/ UnitHandshakeFails(p)
          \/ UnitListed(p)
          \/ WaitTaskWakes(p)
          \/ UnitCancelled(p)
          \/ UnitShutdown(p)
    \/ TimeoutFires
    \/ InitializeReturns
    \/ AExitStart
    \/ AExitDone
    \/ \E name \in Names : CallToolStart(name)
    \/ \E outcome \in {"result", "provider_error"} : CallToolEnds(outcome)

SpecCoord == CoordInit /\ [][CoordNext]_vars

(***************************************************************************)
(* SpecHist: _add_message applied over and over, past the cap              *)
(***************************************************************************)
RoleOf(n) == IF n % 3 = 1 THEN "user" ELSE IF n % 3 = 2 THEN "assistant" ELSE "tool"

HistInit == ParseVarsInit /\ HistVarsInit /\ TurnVarsInit /\ CoordVarsStable

\* the n-th message appended to a session (its content is its number)
HistAppend(s) ==
    LET n == Len(appendLog[s]) + 1
        msg == IF RoleOf(n) = "tool"
               THEN ChatMessage("tool", None, [result |-> <<ToString(n)>>], KnownTool)
               ELSE ChatMessage(RoleOf(n), <<ToString(n)>>, NoData, None)
    IN /\ n <= MaxAppends
       /\ histories' = AddMessage(histories, s, msg)
       /\ appendLog' = [appendLog EXCEPT ![s] = Append(@, msg)]
       /\ UNCHANGED <<pvars, tvars, cvars>>

HistNext == \E s \in Sessions : HistAppend(s)

SpecHist == HistInit /\ [][HistNext]_vars

\* the last n elements of a sequence
LastN(q, n) == SubSeq(q, Len(q) - n + 1, Len(q))

Min(a, b) == IF a < b THEN a ELSE b

\* C7: after every append a session's history holds at most max_history_len
\* messages, and they are exactly the most recently appended ones, unchanged
\* and in append order.
C7_HistoryIsNewestSuffix ==
    \A s \in DOMAIN histories :
        /\ Len(histories[s]) <= max_history_len
        /\ histories[s] = LastN(appendLog[s], Min(Len(appendLog[s]), max_history_len))

C7_Witness ==
    \E s \in DOMAIN histories :
        /\ Len(appendLog[s]) = max_history_len + 2
        /\ Len(histories[s]) = max_history_len
        /\ histories[s][1] = appendLog[s][3]

(***************************************************************************)
(* Claims about handle_input (checked under Spec)                          *)
(***************************************************************************)
Last(q) == q[Len(q)]

Count(q, x) == Cardinality({i \in 1 .. Len(q) : q[i] = x})

\* C1: a handle_input call that has run to its end (normally, or by an
\* exception leaving the generator) has yielded exactly one EndOfTurn, as its
\* last part.
C1_ExactlyOneEndOfTurnLast ==
    \A s \in Sessions :
        turn[s].pc \in {"done", "crashed"} =>
            /\ turn[s].out # <<>>
            /\ Last(turn[s].out) = EndOfTurn
            /\ Count(turn[s].out, EndOfTurn) = 1

\* what the code does guarantee: a generator that is exhausted without an
\* exception has yielded exactly one EndOfTurn, last; before that, none
C1_EndOfTurnWhenNoExceptionEscapes ==
    \A s \in Sessions :
        /\ turn[s].pc = "done" =>
              /\ Last(turn[s].out) = EndOfTurn
              /\ Count(turn[s].out, EndOfTurn) = 1
        /\ turn[s].pc # "done" => Count(turn[s].out, EndOfTurn) = 0

\* the messages the current (or last) handle_input call of s has appended
TurnLog(s) == SubSeq(appendLog[s], turn[s].base + 1, Len(appendLog[s]))

\* the indices of the elements of q that satisfy Test, in order
Positions(q, Test(_)) ==
    LET idx == {i \in 1 .. Len(q) : Test(q[i])}
        RECURSIVE Sorted(_)
        Sorted(S) == IF S = {} THEN <<>>
                     ELSE LET m == CHOOSE x \in S : \A y \in S : x <= y
                          IN <<m>> \o Sorted(S \ {m})
    IN Sorted(idx)

IsIntent(part) == part.type = "ToolCallIntent"

IsToolMessage(m) == m.role = "tool"

\* the text of the TextChunks of parts[from .. to]
RECURSIVE TextOf(_, _, _)
TextOf(parts, from, to) ==
    IF from > to THEN <<>>
    ELSE (IF parts[from].type = "TextChunk" THEN parts[from].content ELSE <<>>)
         \o TextOf(parts, from + 1, to)

\* C2: within a turn, the k-th ToolCallIntent forwarded to the caller has exactly
\* one tool message, the k-th tool message the turn appended, for the same tool
\* and with a payload; only while the tool is being executed is it still missing.
\* Prose forwarded from the same response is the assistant message right before
\* it.  Model call k+1 is issued only after tool message k was appended, and its
\* history snapshot ends with that message.
C2_ToolMessageForEveryIntent ==
    \A s \in Sessions :
        LET t == turn[s]
            log == TurnLog(s)
            ip == Positions(t.out, IsIntent)
            tp == Positions(log, IsToolMessage)
            executing == t.pc \in {"intent_yielded", "tool"}
            Prose(k) == TextOf(t.out, (IF k = 1 THEN 1 ELSE ip[k - 1] + 1), ip[k] - 1)
        IN /\ Len(tp) = IF executing THEN Len(ip) - 1 ELSE Len(ip)
           /\ \A k \in 1 .. Len(tp) :
                /\ log[tp[k]].tool_name = t.out[ip[k]].tool_name
                /\ log[tp[k]].data # NoData
                /\ Prose(k) # <<>> =>
                      log[tp[k] - 1] = ChatMessage("assistant", Prose(k), NoData, None)
           /\ executing /\ Prose(Len(ip)) # <<>> =>
                 Last(log) = ChatMessage("assistant", Prose(Len(ip)), NoData, None)
           /\ t.calls <= Len(tp) + 1
           /\ t.calls >= 2 =>
                 /\ t.snapshot # <<>>
                 /\ Last(t.snapshot) = log[tp[t.calls - 1]]

C2_Witness ==
    \E s \in Sessions :
        /\ turn[s].pc = "stream"
        /\ turn[s].calls = 2
        /\ turn[s].out = <<TextChunk(<<"x">>), ToolCallIntent(KnownTool, "{}")>>
        /\ turn[s].snapshot =
              <<ChatMessage("user", <<"u", "1">>, NoData, None),
                ChatMessage("assistant", <<"x">>, NoData, None),
                ChatMessage("tool", None, [result |-> <<"4">>], KnownTool)>>

\* C3: in the step in which call_tool raises (unknown name, or the provider's
\* call fails), nothing is propagated: a tool message for the intent, whose
\* data holds the error kind and the error message, is appended to the
\* session's history, no ErrorInfo is yielded, and control reaches the
\* re-prompt of line 231 instead of the orchestration-error exit.
C3_ToolErrorBecomesToolMessage ==
    [][\A s \in Sessions :
         LET t == turn[s]
             t2 == turn'[s]
         IN (Len(t2.exec) = Len(t.exec) + 1 /\ Last(t2.exec) # "returned") =>
              \E exc \in {ToolNotFound, ProviderFailure} :
                 LET m == ChatMessage("tool", None,
                             [error |-> <<"Tool execution failed: ", exc.type>>,
                              message |-> exc.message],
                             t.intent.tool_name)
                 IN /\ (Last(t2.exec) = "not_found") = (exc = ToolNotFound)
                    /\ appendLog'[s] = Append(appendLog[s], m)
                    /\ Last(histories'[s]) = m
                    /\ t2.out = t.out
                    /\ t2.reprompts = t.reprompts + 1
                    /\ t2.pc # "ending"
      ]_vars

C3_Witness ==
    \E s \in Sessions :
        /\ turn[s].pc = "stream"
        /\ turn[s].exec = <<"provider_raised">>
        /\ turn[s].calls = 2
        /\ Last(turn[s].snapshot) =
              ChatMessage("tool", None,
                          [error |-> <<"Tool execution failed: ", "McpError">>,
                           message |-> "provider failure"],
                          KnownTool)

(***************************************************************************)
(* Claims about the coordinator (checked under SpecCoord)                  *)
(***************************************************************************)
\* the qualified names of the tools a provider lists
NamesOf(p) == {QualifiedName(p, t) : t \in ToolsOf(p)}

InitializeHasReturned == coord.pc \in {"returned", "exiting", "closed"}

\* C8: once initialize has returned, the providers reported failed are exactly
\* those that had not signalled when the timeout fired, all others are reported
\* successful, every failed provider's unit has been cancelled (or has ended),
\* and any call_tool for a tool of a failed provider has failed with
\* tool-not-found.
C8_TimedOutProvidersAreFailedAndNotFound ==
    InitializeHasReturned =>
        /\ coord.failed = coord.late
        /\ coord.successful = Providers \ coord.late
        /\ \A p \in coord.failed :
              /\ unit[p].cancel \/ unit[p].pc = "finished"
              /\ (call.n > 0 /\ call.name \in NamesOf(p)) =>
                    (call.pc = "idle" /\ call.outcome = "not_found")

\* the part of C8 about the summary and the cancellations, which the code keeps
C8_SummaryAndCancellation ==
    InitializeHasReturned =>
        /\ coord.failed = coord.late
        /\ coord.successful = Providers \ coord.late
        /\ \A p \in coord.failed : unit[p].cancel \/ unit[p].pc = "finished"

\* C9: during and after start-up (before shutdown), a provider that has
\* completed its handshake and tool listing and was not itself timed out is
\* Ready with its connection in the map and each of its tools registered under
\* its own connection, whatever happens to the other providers.
C9_ReadyProviderKeepsItsTools ==
    \A p \in Providers :
        ( /\ coord.pc \in {"waiting", "timed_out", "returned"}
          /\ unit[p].pc = "ready"
          /\ unit[p].listed
          /\ ~unit[p].cancel ) =>
            /\ p \in DOMAIN clients
            /\ \A name \in NamesOf(p) :
                  /\ name \in DOMAIN tool_registry
                  /\ tool_registry[name].client = p

\* the isolation the code keeps: it holds for every provider whose id does not
\* begin with another provider's id followed by a colon, for each of its tools
\* whose qualified name is not also the qualified name of another provider's
\* tool
C9_IsolationWhenNoIdIsAPrefix ==
    \A p \in Providers :
        ( /\ coord.pc \in {"waiting", "timed_out", "returned"}
          /\ unit[p].pc = "ready"
          /\ unit[p].listed
          /\ ~unit[p].cancel
          /\ \A q \in Providers \ {p} : ~IsPrefixOf(q \o <<":">>, p) ) =>
            /\ p \in DOMAIN clients
            /\ \A name \in NamesOf(p) :
                  (\A q \in Providers \ {p} : name \notin NamesOf(q)) =>
                      /\ name \in DOMAIN tool_registry
                      /\ tool_registry[name].client = p

\* C10: a step of call_tool changes nothing but the caller: the registry, the
\* connection map, the units and the coordinator's own position stay as they
\* are.  Its first step fails with tool-not-found exactly when the name is not a
\* registry key, and otherwise passes the entry's own tool name to the client
\* stored in the entry, which is its owner's connection; its second step hands
\* the client's result or the client's error to the caller.
C10_CallToolLooksUpAndLeavesStateAlone ==
    [][call' # call =>
         /\ UNCHANGED <<tool_registry, clients, unit, coord>>
         /\ call.pc = "idle" =>
               IF call'.name \notin DOMAIN tool_registry
               THEN call'.pc = "idle" /\ call'.outcome = "not_found"
               ELSE /\ call'.pc = "awaiting"
                    /\ call'.via = tool_registry[call'.name].client
                    /\ call'.via = tool_registry[call'.name].server_id
                    /\ call'.tool = tool_registry[call'.name].name
         /\ call.pc = "awaiting" =>
               /\ call'.pc = "idle"
               /\ call'.name = call.name
               /\ call'.outcome \in {"result", "provider_error"}
      ]_vars

C10_Witness ==
    /\ coord.pc = "returned"
    /\ call.n = 2
    /\ call.pc = "idle"
    /\ call.outcome = "provider_error"
    /\ call.name = QualifiedName(<<"c">>, <<"t">>)
    /\ call.via = <<"c">>
    /\ call.name \in DOMAIN tool_registry
    /\ unit[<<"c">>].pc = "ready"

\* the (provider, tool) pairs whose qualified name is key
PairsNamed(key) ==
    {pt \in UNION {{<<p, t>> : t \in ToolsOf(p)} : p \in Providers} :
        QualifiedName(pt[1], pt[2]) = key}

\* C20: every registry key is the qualified name of exactly one (provider,
\* tool) pair, its entry carries that provider's id, connection and tool name,
\* and listing a provider's tools never replaces an entry that belongs to
\* another provider.
C20_QualifiedNamesAreUnique ==
    /\ [](\A key \in DOMAIN tool_registry :
            LET e == tool_registry[key] IN
            /\ PairsNamed(key) = {<<e.server_id, e.name>>}
            /\ e.qualified_name = key
            /\ e.client = e.server_id)
    /\ [][\A key \in DOMAIN tool_registry \cap DOMAIN tool_registry' :
            tool_registry'[key].server_id = tool_registry[key].server_id]_vars

\* what the code does guarantee: every entry is filed under the qualified name
\* built from its own provider id and tool name, with that provider's
\* connection
C20_EntriesAreFiledUnderTheirOwnName ==
    \A key \in DOMAIN tool_registry :
        LET e == tool_registry[key] IN
        /\ <<e.server_id, e.name>> \in PairsNamed(key)
        /\ e.qualified_name = key
        /\ e.client = e.server_id

\* the unit of p ends in this step
UnitExits(p) == unit[p].pc # "finished" /\ unit'[p].pc = "finished"

\* C11: teardown.  Setting the shutdown event changes no unit and no shared map;
\* while __aexit__ waits, the registry and the connection map change only in a
\* step in which a unit exits, and the exiting unit leaves neither its
\* connection nor any of its own qualified names behind; the coordinator clears
\* the maps in the step that ends the wait, which it takes only when every unit
\* has exited; from then on both maps stay empty and every call_tool fails with
\* tool-not-found.
C11_Teardown ==
    [][/\ (coord.pc = "returned" /\ coord'.pc = "exiting") =>
              UNCHANGED <<unit, tool_registry, clients>>
       /\ coord.pc = "exiting" =>
              /\ \A p \in Providers :
                    UnitExits(p) =>
                       /\ p \notin DOMAIN clients'
                       /\ \A name \in NamesOf(p) : name \notin DOMAIN tool_registry'
                       /\ coord' = coord
              /\ (coord' = coord /\ <<tool_registry, clients>>' # <<tool_registry, clients>>) =>
                    \E p \in Providers : UnitExits(p)
              /\ coord' # coord =>
                    /\ coord'.pc = "closed"
                    /\ \A p \in Providers : unit[p].pc = "finished"
                    /\ tool_registry' = <<>>
                    /\ clients' = <<>>
       /\ coord.pc = "closed" =>
              /\ tool_registry' = <<>>
              /\ clients' = <<>>
              /\ UNCHANGED <<unit, coord>>
              /\ (call' # call /\ call.pc = "idle") =>
                    (call'.pc = "idle" /\ call'.outcome = "not_found")
      ]_vars

C11_Witness ==
    /\ coord.pc = "closed"
    /\ unit[<<"a">>].how = "shutdown"
    /\ unit[<<"c">>].how = "shutdown"
    /\ call.at = "closed"
    /\ call.name = QualifiedName(<<"a">>, <<"t">>)
    /\ call.outcome = "not_found"
    /\ tool_registry = <<>>
    /\ clients = <<>>

\* The lifecycle state of a provider, read off its unit u and the coordinator c:
\* a unit whose task has ended is Stopped if it ended on the shutdown event and
\* Failed otherwise; a unit that initialize has cancelled is Failed; a unit
\* waiting for the shutdown event is Ready, and ShuttingDown once the event is
\* set; every other unit is Starting.
LifecycleOf(u, c) ==
    IF u.pc = "finished" THEN (IF u.how = "shutdown" THEN "Stopped" ELSE "Failed")
    ELSE IF u.cancel THEN "Failed"
    ELSE IF u.pc = "ready"
         THEN (IF c.pc \in {"exiting", "closed"} THEN "ShuttingDown" ELSE "Ready")
    ELSE "Starting"

Lifecycle(p) == LifecycleOf(unit[p], coord)

LifecycleTransitions ==
    {<<"Starting", "Ready">>, <<"Ready", "ShuttingDown">>, <<"ShuttingDown", "Stopped">>,
     <<"Starting", "Failed">>, <<"Ready", "Failed">>}

\* the registry keys whose entry belongs to p
EntriesOf(reg, p) == {k \in DOMAIN reg : reg[k].server_id = p}

\* C12: every step leaves a provider's lifecycle state alone or takes one of
\* the five transitions; a provider that is Failed or Stopped gets no new
\* registry entry and no connection.  A step of a unit changes that unit only,
\* and in a step of the coordinator (initialize returning, the shutdown event)
\* the new lifecycle state of each provider is a function of its own unit,
\* whatever the other units are.
C12_ProviderLifecycle ==
    [][/\ \A p \in Providers :
            /\ \/ Lifecycle(p)' = Lifecycle(p)
               \/ <<Lifecycle(p), Lifecycle(p)'>> \in LifecycleTransitions
            /\ Lifecycle(p) \in {"Failed", "Stopped"} =>
                  /\ EntriesOf(tool_registry', p) \subseteq EntriesOf(tool_registry, p)
                  /\ p \in DOMAIN clients' => p \in DOMAIN clients
       /\ (coord' = coord /\ unit' # unit) =>
             \E p \in Providers : \A q \in Providers \ {p} : unit'[q] = unit[q]
       /\ coord' # coord =>
             \A p \in Providers :
                Lifecycle(p)' =
                   IF coord'.pc = "returned" /\ ~unit[p].wait_done /\ unit[p].pc # "finished"
                   THEN "Failed"
                   ELSE LifecycleOf(unit[p], coord')
      ]_vars

C12_Witness ==
    /\ Lifecycle(<<"a">>) = "Stopped"
    /\ Lifecycle(<<"c">>) = "Failed"
    /\ unit[<<"c">>].how = "cancelled"
    /\ unit[<<"c">>].listed
    /\ Lifecycle(<<"a", ":", "b">>) = "Failed"
    /\ unit[<<"a", ":", "b">>].how = "error"
    /\ unit[<<"a", ":", "b">>].transport = "stdio"

\* C21: a provider whose unit has terminated, however it ended, owns no
\* registry entry and has no connection in the map; none of its qualified
\* names is a key, unless another provider registered a tool under that name.
C21_TerminatedProviderLeavesNothing ==
    \A p \in Providers :
        unit[p].pc = "finished" =>
            /\ p \notin DOMAIN clients
            /\ EntriesOf(tool_registry, p) = {}
            /\ \A cl \in DOMAIN clients : clients[cl] # p
            /\ \A key \in DOMAIN tool_registry : tool_registry[key].client # p
            /\ \A name \in NamesOf(p) :
                  name \in DOMAIN tool_registry =>
                      \E q \in Providers \ {p} : name \in NamesOf(q)

C21_Witness ==
    /\ coord.pc = "returned"
    /\ unit[<<"c">>].pc = "finished"
    /\ unit[<<"c">>].how = "cancelled"
    /\ unit[<<"c">>].listed
    /\ unit[<<"a", ":", "b">>].pc = "finished"
    /\ unit[<<"a", ":", "b">>].how = "error"
    /\ unit[<<"a">>].pc = "ready"
    /\ QualifiedName(<<"a">>, <<"t">>) \in DOMAIN tool_registry
    /\ DOMAIN clients = {<<"a">>}

\* C22: with a config file that is missing or is not JSON, start-up ends in
\* an error raised to the caller and in nothing else: no unit is ever created,
\* the registry and the connection map stay empty, and the coordinator does
\* nothing after the error.
C22_UnreadableConfigFailsStartup ==
    /\ [](coord.file # "ok" =>
            /\ coord.pc \in {"new", "failed"}
            /\ coord.pc = "failed" => coord.error = "ValueError"
            /\ \A p \in Providers : unit[p].pc = "none"
            /\ tool_registry = <<>>
            /\ clients = <<>>
            /\ call = IdleCall)
    /\ [][(coord.file # "ok" /\ coord.pc = "new") => coord'.pc = "failed"]_vars

C22_Witness ==
    /\ coord.file = "unparseable"
    /\ coord.pc = "failed"
    /\ coord.error = "ValueError"
    /\ \A p \in Providers : unit[p].transport = "stdio" /\ unit[p].pc = "none"
    /\ tool_registry = <<>>
    /\ clients = <<>>

\* the entry of p has every field ServerConfig requires
CompleteEntry(p) == unit[p].transport # "incomplete"

\* C23: a provider whose entry lacks a required field fails alone: with a
\* readable config file start-up does not fail as a whole, the step that
\* starts the coordinator creates the unit of every provider whose entry is
\* complete, and the provider with the incomplete entry never gets a
\* connection or a registry entry.
C23_IncompleteEntryFailsAlone ==
    /\ [](coord.file = "ok" =>
            /\ coord.pc # "failed"
            /\ \A p \in Providers :
                  ~CompleteEntry(p) =>
                      /\ p \notin DOMAIN clients
                      /\ EntriesOf(tool_registry, p) = {})
    /\ [][(coord.file = "ok" /\ coord.pc = "new") =>
            \A p \in Providers :
                CompleteEntry(p) => unit'[p].pc = "created"]_vars

\* what the code keeps of C23: a stdio entry without a command, the one
\* field checked in the provider's own unit, fails alone
C23_MissingCommandFailsAlone ==
    /\ [](\A p \in Providers :
            unit[p].transport = "stdio_nocmd" =>
                /\ p \notin DOMAIN clients
                /\ EntriesOf(tool_registry, p) = {}
                /\ unit[p].pc = "finished" => unit[p].how \in {"error", "cancelled"})
    /\ [][(coord.file = "ok" /\ coord.pc = "new"
              /\ \A p \in Providers : CompleteEntry(p)) =>
            \A p \in Providers : unit'[p].pc = "created"]_vars

\* C24: in the summary made after the readiness wait a provider is counted
\* successful exactly when it reached Ready (its tools were listed and
\* registered before the wait was over), and a provider whose unit ended in an
\* error or found an unsupported or unknown transport is counted failed.
C24_SuccessfulMeansReady ==
    InitializeHasReturned =>
        \A p \in Providers :
            /\ p \in coord.successful <=> (unit[p].listed /\ p \notin coord.late)
            /\ unit[p].how \in {"error", "unsupported"} => p \in coord.failed
            /\ p \in coord.successful \/ p \in coord.failed

\* the entry under key is inserted, removed or replaced by the step
EntryChanges(key) ==
    \/ (key \in DOMAIN tool_registry) # (key \in DOMAIN tool_registry')
    \/ /\ key \in DOMAIN tool_registry
       /\ key \in DOMAIN tool_registry'
       /\ tool_registry'[key] # tool_registry[key]

\* the providers that own the entry under key before or after the step
OwnersOf(key) ==
    (IF key \in DOMAIN tool_registry THEN {tool_registry[key].server_id} ELSE {})
    \cup (IF key \in DOMAIN tool_registry' THEN {tool_registry'[key].server_id} ELSE {})

\* the step is p's unit finishing its tool discovery or running its teardown
DiscoversOrTearsDown(p) ==
    \/ unit[p].pc = "listing" /\ unit'[p].pc = "ready"
    \/ unit[p].pc # "finished" /\ unit'[p].pc = "finished"

\* the step belongs to the conversation loop: a turn of handle_input (with its
\* history) or a call_tool
ReaderStep == tvars' # tvars \/ hvars' # hvars \/ call' # call

\* C25: the conversation loop only reads the registry and the connection map,
\* and a registry entry is inserted, removed or replaced only in a step in
\* which the provider that owns it discovers its tools or tears down.
C25_OnlyOwnersChangeEntries ==
    [][ /\ ReaderStep => UNCHANGED <<tool_registry, clients>>
        /\ \A key \in DOMAIN tool_registry \cup DOMAIN tool_registry' :
              EntryChanges(key) => \A p \in OwnersOf(key) : DiscoversOrTearsDown(p)
      ]_vars

\* what the code keeps of C25: no step of the conversation loop changes the
\* registry or the connection map, and every change of an entry happens in a
\* step of some provider unit that discovers or tears down
C25_ReadersLeaveRegistryAlone ==
    [][ /\ ReaderStep => UNCHANGED <<tool_registry, clients>>
        /\ (tool_registry' # tool_registry \/ clients' # clients) =>
              \E p \in Providers : unit'[p] # unit[p]
        /\ tool_registry' # tool_registry =>
              \E p \in Providers : DiscoversOrTearsDown(p)
      ]_vars

(***************************************************************************)
(* Claims about the stream interpreter (checked under SpecParse)           *)
(***************************************************************************)
RECURSIVE Concat(_)
Concat(ss) == IF ss = <<>> THEN <<>> ELSE Head(ss) \o Concat(Tail(ss))

\* the parts of a stream whose whole text arrives as one fragment and then ends
ParseWhole(text) ==
    LET r == ScanBuffer(text) IN r.parts \o FlushBuffer(r.buf)

\* C4: whatever the fragment boundaries were, the parts yielded so far (and the
\* text still buffered) are those of the same text received as a single
\* fragment; so two splittings of one text yield the same sequence of parts,
\* and a directive cut inside a marker is still one ToolCallIntent.
C4_ChunkingInvariance ==
    LET r == ScanBuffer(received)
    IN /\ ppc = "run" => (out = r.parts /\ buffer = r.buf)
       /\ ppc = "ended" => out = r.parts \o FlushBuffer(r.buf)
       /\ ppc = "raised" => out = r.parts \o <<AdapterError>>

C4_Witness ==
    /\ ppc = "ended"
    /\ cutInMarker
    /\ received = DirOk
    /\ out = <<ToolCallIntent(KnownTool, "{}")>>

ProseBefore == {<<>>, <<"x">>, <<"x", "x">>}

MalformedInteriors == {<<"{", "T">>, <<"{", "T", "}">>}

\* C5: a complete directive with a malformed interior (not JSON, or JSON without
\* a required key) yields exactly one ErrorInfo in its place: the prose before
\* it is a TextChunk, and the rest of the stream is interpreted as it would be
\* on its own.
C5_MalformedDirective ==
    ppc = "ended" =>
        \A pre \in ProseBefore, bad \in MalformedInteriors :
            IsPrefixOf(pre \o Directive(bad), received) =>
                out = FlushBuffer(pre)
                      \o <<ErrorInfo("Failed to parse/validate tool call JSON.", bad)>>
                      \o ParseWhole(SliceFrom(received, Len(pre \o Directive(bad))))

C5_Witness ==
    /\ ppc = "ended"
    /\ received = <<"x">> \o DirNoArgs \o <<"x">>
    /\ out = <<TextChunk(<<"x">>),
               ErrorInfo("Failed to parse/validate tool call JSON.", <<"{", "T", "}">>),
               TextChunk(<<"x">>)>>

\* C6: however the stream ends, the text of the TextChunks and the directive
\* regions that surfaced as ToolCallIntent or ErrorInfo, concatenated in order,
\* is all the text received from the adapter.
C6_NoInputDropped ==
    ppc \in {"ended", "raised"} => Concat(outRaw) = received

\* the part of C6 that the code keeps: a stream that ends normally loses nothing
C6_NoInputDroppedOnNormalEnd ==
    ppc = "ended" => Concat(outRaw) = received

(***************************************************************************)
(* Claims about whole turns of handle_input                                *)
(***************************************************************************)
\* the text of a reply: its fragments, joined
ReplyText(resp) == Concat(resp.frags)

\* a reply that arrived whole and holds no start marker
NoDirective(resp) ==
    /\ ~resp.raises
    /\ ~resp.foreign
    /\ Find(ReplyText(resp), tool_start_delimiter, 0) = -1

\* the user message of the current handle_input call of s
UserMessage(s) == ChatMessage("user", <<"u", ToString(nturns[s])>>, NoData, None)

AssistantMessage(text) == ChatMessage("assistant", text, NoData, None)

\* the first reply of the turn of s holds no directive, and nothing went wrong
\* in the orchestrator
AnsweredWithoutDirective(s) ==
    /\ turn[s].replies # <<>>
    /\ NoDirective(turn[s].replies[1])
    /\ turn[s].fault = "none"

ProseDirectiveThenText(s, prose) ==
    /\ Len(turn[s].replies) = 2
    /\ ~turn[s].replies[1].raises
    /\ ReplyText(turn[s].replies[1]) = prose \o DirOk
    /\ NoDirective(turn[s].replies[2])
    /\ ReplyText(turn[s].replies[2]) # <<>>
    /\ turn[s].exec = <<"returned">>
    /\ turn[s].fault = "none"

\* C14: a turn that got prose and one valid directive, and text only after the
\* tool result, has yielded the prose, the intent, the final text and EndOfTurn,
\* and has appended user, assistant(prose), tool(result), assistant(final text).
C14_ProseDirectiveThenText ==
    \A s \in Sessions :
        (turn[s].pc = "done" /\ ProseDirectiveThenText(s, <<"x">>)) =>
            LET final == ReplyText(turn[s].replies[2])
                intent == ToolCallIntent(KnownTool, "{}")
            IN /\ turn[s].out = <<TextChunk(<<"x">>), intent, TextChunk(final), EndOfTurn>>
               /\ TurnLog(s) = <<UserMessage(s),
                                 AssistantMessage(<<"x">>),
                                 ToolResultMessage(intent, <<"4">>),
                                 AssistantMessage(final)>>

C14_Witness ==
    /\ turn["s2"].pc = "done"
    /\ ProseDirectiveThenText("s2", <<"x">>)
    /\ Len(turn["s2"].replies[1].frags) = 2
    /\ ReplyText(turn["s2"].replies[2]) = <<"x", "y">>
    /\ Len(turn["s2"].out) = 4
    /\ Len(TurnLog("s2")) = 4

\* the parts of model call k of the turn of s that reached the caller: what
\* was yielded between that call and the next, less the parts handle_input
\* adds itself (its own ErrorInfo, EndOfTurn)
Forwarded(s, k) ==
    LET t == turn[s]
        hi == IF k < Len(t.marks) THEN t.marks[k + 1] ELSE Len(t.out)
    IN SelectSeq(SubSeq(t.out, t.marks[k] + 1, hi),
                 LAMBDA part : part \notin {OrchestratorError, EndOfTurn})

\* parts as they reach the caller: a part of no known type is replaced
AsForwarded(parts) ==
    [i \in 1 .. Len(parts) |->
        IF parts[i].type = "Other" THEN UnknownPartError ELSE parts[i]]

\* what the service produces for each reply, as it is to reach the caller
ProducedFor == [resp \in Responses |-> AsForwarded(GenerateResponse(resp))]

\* what the interpreter produces for model call k of the turn of s
Produced(s, k) == ProducedFor[turn[s].replies[k]]

OrderedAsProduced ==
    \A s \in Sessions :
        LET t == turn[s]
            n == Len(t.replies)
        IN /\ Len(t.marks) = n
           /\ \A k \in 1 .. n :
                 LET produced == Produced(s, k)
                     forwarded == Forwarded(s, k)
                 IN /\ IsPrefixOf(forwarded, produced)
                    /\ k < n => IsIntent(Last(forwarded))
                    /\ (k = n /\ t.pc = "stream") =>
                          forwarded \o AsForwarded(t.stream) = produced
                    /\ (k = n /\ t.pc = "done" /\ t.fault = "none") => forwarded = produced

OneAtATime ==
    /\ \A s \in Sessions :
          nturns'[s] = nturns[s] =>
             \/ turn'[s].out = turn[s].out
             \/ /\ Len(turn'[s].out) = Len(turn[s].out) + 1
                /\ IsPrefixOf(turn[s].out, turn'[s].out)
                /\ \A r \in Sessions \ {s} : turn'[r].out = turn[r].out
    /\ \A s \in Sessions :
          (/\ turn[s].pc = "stream" /\ turn[s].stream # <<>>
           /\ Head(turn[s].stream).type = "TextChunk"
           /\ turn'[s] # turn[s] /\ turn'[s].fault = turn[s].fault
           /\ nturns'[s] = nturns[s]) =>
              /\ turn'[s].out = Append(turn[s].out, Head(turn[s].stream))
              /\ turn'[s].stream = Tail(turn[s].stream)

\* C15: within a turn the parts that reach the caller are, call by call, a
\* prefix of what the interpreter produced, in the same order, and the whole
\* of it once the stream is exhausted; a step yields at most one part, in one
\* session; and a pending TextChunk is yielded in the very step that takes it
\* from the stream, before any later part is taken.
C15_PartsInOrderOneAtATime == []OrderedAsProduced /\ [][OneAtATime]_vars

C15_Witness ==
    /\ turn["s1"].pc = "done"
    /\ Len(turn["s1"].replies) = 2
    /\ Len(Produced("s1", 1)) = 4
    /\ Forwarded("s1", 1) = SubSeq(Produced("s1", 1), 1, 2)
    /\ Len(Forwarded("s1", 2)) = 2
    /\ Produced("s1", 2)[1].type = "ErrorInfo"

IsUserMessage(m) == m.role = "user"

\* the generator of the last handle_input call of s is over
Exhausted(s) == turn[s].pc \in {"done", "crashed"}

\* C16: a handle_input call for a session starts only when the previous call
\* for that session is over, and from then on the previous call appends
\* nothing: the messages a call appends form one block of the history that
\* begins with its own user message and holds no other user message, and every
\* append made between two calls' starts is made by the running call, after
\* what was there.
C16_TurnsOfASessionAreSerialized ==
    /\ [](\A s \in Sessions :
            nturns[s] > 0 =>
               /\ TurnLog(s) # <<>>
               /\ TurnLog(s)[1] = UserMessage(s)
               /\ Len(SelectSeq(TurnLog(s), IsUserMessage)) = 1
               /\ Len(SelectSeq(appendLog[s], IsUserMessage)) = nturns[s])
    /\ [][\A s \in Sessions :
            /\ nturns'[s] # nturns[s] =>
                  /\ nturns[s] > 0 => Exhausted(s)
                  /\ nturns'[s] = nturns[s] + 1
                  /\ turn'[s].base = Len(appendLog[s])
                  /\ IsPrefixOf(appendLog[s], appendLog'[s])
            /\ (nturns'[s] = nturns[s] /\ appendLog'[s] # appendLog[s]) =>
                  /\ ~Exhausted(s) /\ nturns[s] > 0
                  /\ turn'[s].base = turn[s].base
                  /\ IsPrefixOf(appendLog[s], appendLog'[s])
            /\ Exhausted(s) => (turn'[s] = turn[s] \/ nturns'[s] # nturns[s])
         ]_vars

C16_Witness ==
    /\ nturns["s1"] = 2
    /\ turn["s1"].pc = "stream"
    /\ turn["s1"].base = 3
    /\ appendLog["s1"][2].role = "assistant"
    /\ appendLog["s1"][3].role = "tool"
    /\ TurnLog("s1") = <<UserMessage("s1")>>

InProgress(s) == turn[s].pc \in {"stream", "intent_yielded", "tool", "ending"}

CaughtAndSurfaced(s) ==
    LET t == turn[s] IN
    /\ t.pc \in {"ending", "done"}
    /\ Count(t.out, OrchestratorError) = 1
    /\ t.pc = "ending" => Last(t.out) = OrchestratorError
    /\ t.pc = "done" =>
          /\ Len(t.out) >= 2
          /\ t.out[Len(t.out) - 1] = OrchestratorError
          /\ Last(t.out) = EndOfTurn
    /\ t.stream = <<>>

\* C18: an exception raised inside the turn loop never leaves handle_input: it
\* is surfaced as exactly one ErrorInfo, the last part before EndOfTurn, and no
\* model call follows it.
C18_ExceptionInLoopIsCaught ==
    /\ [](\A s \in Sessions : turn[s].fault # "none" => CaughtAndSurfaced(s))
    /\ [][\A s \in Sessions :
            (turn[s].fault # "none" /\ nturns'[s] = nturns[s]) =>
                turn'[s].calls = turn[s].calls]_vars

\* what the code does guarantee: an exception raised inside the `try` of line
\* 168 is caught and surfaced, and no model call follows it
C18_ExceptionInTryIsCaught ==
    /\ [](\A s \in Sessions : turn[s].fault = "in_try" => CaughtAndSurfaced(s))
    /\ [][\A s \in Sessions :
            (turn[s].fault = "in_try" /\ nturns'[s] = nturns[s]) =>
                turn'[s].calls = turn[s].calls]_vars

ErrorOutcomes == {"crashed", "before_try", "in_try", "stream_error", "tool_error"}

\* the turn of s follows a turn of the same session that ended with an error
AfterErroredTurn(s) == turn[s].prev \in ErrorOutcomes

\* C19: a handle_input call that follows an errored turn of its session works
\* on the same history: the earlier messages are still there, its user message
\* comes right after them, and the model is called afresh with all of them;
\* nothing of the errored turn's output or pending text is carried over; and a
\* call that runs to its end without an exception leaving it has yielded
\* exactly one EndOfTurn, last.
C19_SessionSurvivesAnErroredTurn ==
    /\ [](\A s \in Sessions :
            AfterErroredTurn(s) =>
               LET t == turn[s] IN
               /\ nturns[s] >= 2
               /\ t.base >= 1
               /\ s \in DOMAIN histories
               /\ histories[s] = appendLog[s]
               /\ appendLog[s][t.base + 1] = UserMessage(s)
               /\ t.pc # "crashed" =>
                     /\ t.calls >= 1
                     /\ IsPrefixOf(SubSeq(appendLog[s], 1, t.base + 1), t.snapshot)
               /\ Count(t.out, EndOfTurn) = (IF t.pc = "done" THEN 1 ELSE 0)
               /\ t.pc = "done" => Last(t.out) = EndOfTurn)
    /\ [][\A s \in Sessions :
            (nturns'[s] # nturns[s] /\ PrevOutcome(turn[s]) \in ErrorOutcomes) =>
               /\ turn'[s].prev = PrevOutcome(turn[s])
               /\ s \in DOMAIN histories
               /\ histories'[s] = Append(histories[s], UserMessage(s)')
               /\ appendLog'[s] = Append(appendLog[s], UserMessage(s)')
               /\ turn'[s].out = <<>> /\ turn'[s].buf = <<>>
               /\ turn'[s].fault \in {"none", "before_try"}
               /\ turn'[s].pc = "stream" => turn'[s].calls = 1
         ]_vars

C19_Witness ==
    /\ turn["s1"].prev = "in_try"
    /\ turn["s1"].pc = "done"
    /\ turn["s1"].out = <<TextChunk(<<"x">>), EndOfTurn>>
    /\ Len(appendLog["s1"]) = 3
    /\ appendLog["s1"][3] = AssistantMessage(<<"x">>)

\* the response being handled has forwarded no prose up to now
NoProseSoFar(s) ==
    \A i \in 1..Len(Forwarded(s, Len(turn[s].replies))) :
        Forwarded(s, Len(turn[s].replies))[i].type # "TextChunk"

\* the turn of s has yielded an intent and its tool message is not yet written
IntentPending(s) == turn[s].pc \in {"intent_yielded", "tool"}

\* C26: a response that yields a ToolCallIntent with no prose before it adds no
\* assistant message: the history never holds an assistant message with empty
\* content, the step that yields such an intent leaves the history as it is,
\* and the tool message is appended right after the entry that was last when
\* the model was called (the user's message or an earlier tool message).
C26_IntentWithoutProseRecordsNoAssistantMessage ==
    /\ [](\A s \in Sessions :
            /\ \A i \in 1..Len(appendLog[s]) :
                  appendLog[s][i].role = "assistant" => appendLog[s][i].content # <<>>
            /\ (IntentPending(s) /\ NoProseSoFar(s)) =>
                  appendLog[s][Len(appendLog[s])].role \in {"user", "tool"})
    /\ [][\A s \in Sessions :
            /\ (turn[s].pc = "stream" /\ turn'[s].pc = "intent_yielded"
                  /\ turn[s].buf = <<>>) => UNCHANGED hvars
            /\ (IntentPending(s) /\ ~IntentPending(s)') =>
                  /\ Len(appendLog'[s]) = Len(appendLog[s]) + 1
                  /\ SubSeq(appendLog'[s], 1, Len(appendLog[s])) = appendLog[s]
                  /\ appendLog'[s][Len(appendLog'[s])].role = "tool"
         ]_vars

C26_Witness ==
    /\ turn["s1"].pc = "done"
    /\ Len(turn["s1"].replies) = 2
    /\ turn["s1"].replies[1].frags = <<DirOk>>
    /\ turn["s1"].replies[2].frags = << <<"x">> >>
    /\ ~turn["s1"].replies[2].raises
    /\ turn["s1"].exec = <<"returned">>
    /\ TurnLog("s1") = <<UserMessage("s1"),
                         ToolResultMessage(ToolCallIntent(KnownTool, "{}"), <<"4">>),
                         AssistantMessage(<<"x">>)>>

(***************************************************************************)
(* Claims about what the stream interpreter emits, and when                *)
(***************************************************************************)

\* text is prose throughout: it holds no character of a marker
AllProse(text) == \A i \in 1..Len(text) : text[i] \in {"x", "y"}

\* C27: the interpreter does not hold back the whole response: when a second
\* or later fragment of a stream without any start marker has been taken in,
\* prose has been emitted as TextChunk although the stream has not ended.
C27_ProseEmittedWhileFragmentsArrive ==
    [][(ppc = "run" /\ received # <<>> /\ received' # received
           /\ AllProse(received')) => out' # <<>>]_vars

\* what the code keeps of C27: prose without a start marker is held in the
\* buffer, whole, for as long as the stream runs
C27_ProseHeldUntilStreamEnd ==
    (ppc = "run" /\ AllProse(received)) => (out = <<>> /\ buffer = received)

\* the stream interpreter has returned after a normal end of the adapter stream
EndedNormally == ppc = "ended"

\* C28: at a normal end of the stream what is still buffered (trailing prose,
\* or a start marker with an interior whose end marker never came) is emitted
\* as one TextChunk, the last part of the output; an empty remainder adds
\* nothing; and the output of the finished interpreter is the parts of the
\* complete regions followed by that chunk and by nothing else.
C28_RemainderFlushedAtNormalEnd ==
    EndedNormally =>
        LET r == ScanBuffer(received)
        IN /\ buffer = r.buf
           /\ unsent = <<>>
           /\ IF buffer = <<>>
              THEN out = r.parts
              ELSE /\ out = Append(r.parts, TextChunk(buffer))
                   /\ out[Len(out)].content = buffer

C28_Witness ==
    /\ EndedNormally
    /\ received = <<"x">> \o DirBadJson \o tool_start_delimiter
    /\ buffer = tool_start_delimiter
    /\ Len(out) = 3
    /\ out[1] = TextChunk(<<"x">>)
    /\ out[2].type = "ErrorInfo"
    /\ out[3] = TextChunk(tool_start_delimiter)

\* the name a well-formed interior of ObjectInteriors asks for
NameAskedFor ==
    [interior \in ObjectInteriors |->
        IF interior = <<NL, " ", "{", "A", ",", " ", "U", "}", " ", NL>>
        THEN UnknownTool ELSE KnownTool]

\* the part emitted for the k-th region is the one for this interior
EmittedFor(k, interior) ==
    IF interior \in ObjectInteriors
    THEN out[k] = ToolCallIntent(NameAskedFor[interior], "{}")
    ELSE /\ out[k].type = "ErrorInfo"
         /\ out[k].message = "Failed to parse/validate tool call JSON."
         /\ out[k].details = Strip(interior)

\* C29: a complete directive yields a ToolCallIntent with the decoded name and
\* arguments exactly when its stripped interior is a JSON object with both
\* keys, and an ErrorInfo that names the malformed content for every other
\* interior; decoding never makes the interpreter raise: it keeps running and
\* only the adapter's own failure ends it with an error.
C29_DirectiveDecodesOrReportsError ==
    /\ [](\A k \in 1..Len(outRaw) : \A interior \in Interiors :
            outRaw[k] = Directive(interior) =>
                /\ EmittedFor(k, interior)
                /\ out[k].type = "ToolCallIntent" <=> interior \in ObjectInteriors)
    /\ [][received' # received => ppc' = "run"]_vars
    /\ [](ppc = "raised" => out[Len(out)] = AdapterError)
    /\ [](ppc = "ended" =>
            \E k \in 1..Len(outRaw) : \E interior \in Interiors :
                outRaw[k] = Directive(interior))

C29_Witness ==
    /\ ppc = "ended"
    /\ received = <<"x">> \o Directive(<<NL, " ", "{", "A", ",", " ", "U", "}", " ", NL>>)
                          \o <<"x">>
    /\ out = <<TextChunk(<<"x">>), ToolCallIntent(UnknownTool, "{}"), TextChunk(<<"x">>)>>

\* nothing in buf is a complete region: there is no start marker, or buf
\* begins with one whose end marker has not come
FullyScanned(buf) ==
    LET start_index == Find(buf, tool_start_delimiter, 0)
    IN \/ start_index = -1
       \/ /\ start_index = 0
          /\ Find(buf, tool_end_delimiter, Len(tool_start_delimiter)) = -1

\* raw is a directive from its start marker to its end marker
IsDirective(raw) ==
    /\ Len(raw) >= Len(tool_start_delimiter) + Len(tool_end_delimiter)
    /\ IsPrefixOf(tool_start_delimiter, raw)
    /\ SliceFrom(raw, Len(raw) - Len(tool_end_delimiter)) = tool_end_delimiter

\* part is what the region raw has to come out as
PartOfRegion(part, raw) ==
    IF IsDirective(raw)
    THEN /\ part.type \in {"ToolCallIntent", "ErrorInfo"}
         /\ part = DecodeDirective(Slice(raw, Len(tool_start_delimiter),
                                         Len(raw) - Len(tool_end_delimiter)))
    ELSE /\ part = TextChunk(raw)
         /\ raw # <<>>
         /\ Find(raw, tool_start_delimiter, 0) = -1

\* C30: the pass that takes in a fragment scans everything the fragment
\* completes: the regions it emits, in stream order, followed by the new
\* buffer are the old buffer followed by the fragment; every emitted part is
\* the TextChunk of the prose or the ToolCallIntent or ErrorInfo of the
\* directive it stands for; and what stays in the buffer for the next
\* fragment holds no complete region.
C30_FragmentScannedInOnePass ==
    [][received' # received =>
          LET chunk == SliceFrom(received', Len(received))
              regions == SubSeq(outRaw', Len(outRaw) + 1, Len(outRaw'))
          IN /\ Concat(regions) \o buffer' = buffer \o chunk
             /\ FullyScanned(buffer')
             /\ Len(out') = Len(outRaw')
             /\ SubSeq(out', 1, Len(out)) = out
             /\ \A k \in (Len(out) + 1)..Len(out') : PartOfRegion(out'[k], outRaw'[k])
      ]_vars

C30_Witness ==
    /\ ppc = "run"
    /\ unsent = <<>>
    /\ received = <<"x">> \o DirOk \o DirBadJson
    /\ buffer = <<>>
    /\ ~cutInMarker
    /\ out = <<TextChunk(<<"x">>),
               ToolCallIntent(KnownTool, "{}"),
               ErrorInfo("Failed to parse/validate tool call JSON.", <<"{", "T">>)>>

(***************************************************************************)
(* Claims about errors, tool calls and termination within a turn           *)
(***************************************************************************)
\* the generator of s is about to take from its stream a part that is an
\* ErrorInfo or is of no known type
ErrorPartNext(s) ==
    /\ turn[s].pc = "stream"
    /\ turn[s].stream # <<>>
    /\ Head(turn[s].stream).type \notin {"TextChunk", "ToolCallIntent"}

\* the step is taken by the generator of s and no exception is raised in it
StepsWithoutFault(s) ==
    /\ turn'[s] # turn[s]
    /\ nturns'[s] = nturns[s]
    /\ turn'[s].fault = turn[s].fault

\* C31: an ErrorInfo of the stream is forwarded as it is and a part of no
\* known type is forwarded as an ErrorInfo; in either case the generator stays
\* on the same stream with the later parts still to come, the pending
\* assistant text is kept, and nothing is written to any history.
C31_ErrorPartIsForwardedAndStreamGoesOn ==
    [][\A s \in Sessions :
          (ErrorPartNext(s) /\ StepsWithoutFault(s)) =>
              LET part == Head(turn[s].stream)
              IN /\ turn'[s].out =
                       Append(turn[s].out,
                              IF part.type = "ErrorInfo" THEN part ELSE UnknownPartError)
                 /\ turn'[s].out[Len(turn'[s].out)].type = "ErrorInfo"
                 /\ turn'[s].pc = "stream"
                 /\ turn'[s].stream = Tail(turn[s].stream)
                 /\ turn'[s].buf = turn[s].buf
                 /\ turn'[s].calls = turn[s].calls
                 /\ UNCHANGED hvars
      ]_vars

C31_Witness ==
    /\ turn["s1"].pc = "done"
    /\ turn["s1"].replies = << [frags |-> << <<"x">> \o DirBadJson \o <<"y">> >>,
                                raises |-> FALSE, foreign |-> FALSE, at_call |-> FALSE] >>
    /\ turn["s1"].out = <<TextChunk(<<"x">>),
                          ErrorInfo("Failed to parse/validate tool call JSON.", <<"{", "T">>),
                          TextChunk(<<"y">>),
                          EndOfTurn>>
    /\ TurnLog("s1") = <<UserMessage("s1"), AssistantMessage(<<"x", "y">>)>>
    /\ turn["s2"].pc = "done"
    /\ turn["s2"].replies[1].foreign
    /\ turn["s2"].out = <<TextChunk(<<"x">>), UnknownPartError, TextChunk(<<"y">>), EndOfTurn>>
    /\ TurnLog("s2") = <<UserMessage("s2"), AssistantMessage(<<"x", "y">>)>>

\* the generator of s is suspended in call_tool and the provider has not
\* answered
AwaitingProvider(s) == turn[s].pc = "tool"

\* the step ends the call_tool of s with the provider's answer: its result or
\* its error, recorded as the tool message
ProviderAnswers(s) ==
    /\ Len(turn'[s].exec) = Len(turn[s].exec) + 1
    /\ \/ /\ Last(turn'[s].exec) = "returned"
          /\ Last(appendLog'[s]) = ToolResultMessage(turn[s].intent, <<"4">>)
       \/ /\ Last(turn'[s].exec) = "provider_raised"
          /\ Last(appendLog'[s]) = ToolErrorMessage(turn[s].intent, ProviderFailure)

\* C32: nothing bounds a tool invocation.  While the provider has not
\* answered, the last part the turn has emitted is the ToolCallIntent and no
\* EndOfTurn has been emitted, and the only step that changes the turn is the
\* provider's answer: without it the turn stays as it is for ever.
C32_NoTimeoutOnToolCall ==
    /\ [](\A s \in Sessions :
            AwaitingProvider(s) =>
                /\ turn[s].out # <<>>
                /\ Last(turn[s].out) = turn[s].intent
                /\ IsIntent(Last(turn[s].out))
                /\ Count(turn[s].out, EndOfTurn) = 0)
    /\ [][\A s \in Sessions :
            (AwaitingProvider(s) /\ (turn'[s] # turn[s] \/ appendLog'[s] # appendLog[s])) =>
                ProviderAnswers(s)]_vars

C32_Witness ==
    /\ AwaitingProvider("s1")
    /\ turn["s1"].out = <<TextChunk(<<"x">>), ToolCallIntent(KnownTool, "{}")>>
    /\ turn["s2"].pc = "done"
    /\ nturns["s2"] = 1
    /\ ncalls = MaxModelCalls

\* the adapter raised for this reply, when it was called or after its fragments
AdapterRaised(resp) == resp.raises /\ ~resp.foreign

\* the ErrorInfo parts among parts
ErrorsIn(parts) == {i \in 1 .. Len(parts) : parts[i].type = "ErrorInfo"}

\* C33: when the adapter raises, the service's stream still ends normally,
\* with exactly one ErrorInfo, as its last part; the turn does not leave the
\* generator by that exception and makes no further model call: the raising
\* reply is the last of the turn, and the turn ends with that ErrorInfo
\* followed by EndOfTurn.
C33_AdapterFailureEndsTheTurn ==
    \A s \in Sessions :
        LET t == turn[s]
            n == Len(t.replies)
        IN \A k \in 1 .. n :
              AdapterRaised(t.replies[k]) =>
                  LET produced == Produced(s, k)
                  IN /\ produced # <<>>
                     /\ Last(produced) \in {AdapterError, GenerateError}
                     /\ ErrorsIn(produced) = {Len(produced)}
                     /\ k = n
                     /\ t.calls = n
                     /\ t.pc \in {"stream", "ending", "done"}
                     /\ (t.pc = "stream" /\ t.stream = <<>>) =>
                            Last(t.out) = Last(produced)
                     /\ (t.pc = "done" /\ t.fault = "none") =>
                            /\ Forwarded(s, k) = produced
                            /\ Len(t.out) >= 2
                            /\ t.out[Len(t.out) - 1] = Last(produced)
                            /\ Last(t.out) = EndOfTurn

C33_Witness ==
    /\ turn["s1"].pc = "done"
    /\ Len(turn["s1"].replies) = 1
    /\ turn["s1"].replies[1].at_call
    /\ turn["s1"].out = <<GenerateError, EndOfTurn>>
    /\ turn["s2"].pc = "done"
    /\ Len(turn["s2"].replies) = 1
    /\ turn["s2"].replies[1].raises
    /\ turn["s2"].replies[1].frags = << <<"x">> >>
    /\ turn["s2"].out = <<AdapterError, EndOfTurn>>
    /\ TurnLog("s2") = <<UserMessage("s2")>>

\* the number of tool messages the current call of s has appended
ToolMessages(s) == Len(SelectSeq(TurnLog(s), IsToolMessage))

\* the number of intents the current call of s has emitted
Intents(s) == Len(SelectSeq(turn[s].out, IsIntent))

\* C34: the intent is with the caller before call_tool is invoked.  While the
\* generator is suspended at the yield of the intent, the intent is the last
\* part emitted, the tool has not been executed and no tool message stands
\* for it, and nothing changes until the caller resumes the generator; every
\* invocation of call_tool starts from that state; and a further model call
\* of the turn is made only in the step in which call_tool has come back and
\* its tool message is appended.
C34_IntentBeforeToolAndToolBeforeModel ==
    /\ [](\A s \in Sessions :
            /\ turn[s].pc = "intent_yielded" =>
                  /\ turn[s].out # <<>> /\ Last(turn[s].out) = turn[s].intent
                  /\ Len(turn[s].exec) = Intents(s) - 1
                  /\ ToolMessages(s) = Intents(s) - 1
            /\ turn[s].pc = "tool" =>
                  /\ turn[s].out # <<>> /\ Last(turn[s].out) = turn[s].intent
                  /\ ToolMessages(s) = Intents(s) - 1
            /\ turn[s].pc \notin {"intent_yielded", "tool"} =>
                  /\ Len(turn[s].exec) = Intents(s)
                  /\ ToolMessages(s) = Intents(s))
    /\ [][\A s \in Sessions :
            /\ (turn'[s].pc = "tool" /\ turn[s].pc # "tool") =>
                  /\ turn[s].pc = "intent_yielded"
                  /\ turn'[s].out = turn[s].out
                  /\ UNCHANGED hvars
            /\ (nturns'[s] = nturns[s] /\ Len(turn'[s].exec) # Len(turn[s].exec)) =>
                  /\ turn[s].pc \in {"intent_yielded", "tool"}
                  /\ turn[s].out # <<>> /\ Last(turn[s].out) = turn[s].intent
                  /\ Len(turn'[s].exec) = Len(turn[s].exec) + 1
            /\ (nturns'[s] = nturns[s] /\ turn'[s].calls # turn[s].calls) =>
                  /\ turn'[s].calls = turn[s].calls + 1
                  /\ Len(turn'[s].exec) = Len(turn[s].exec) + 1
                  /\ Len(appendLog'[s]) = Len(appendLog[s]) + 1
                  /\ IsToolMessage(Last(appendLog'[s]))
                  /\ Last(appendLog'[s]).tool_name = turn[s].intent.tool_name
                  /\ Last(turn'[s].snapshot) = Last(appendLog'[s])
         ]_vars

C34_Witness ==
    /\ turn["s1"].pc = "intent_yielded"
    /\ turn["s1"].out = <<TextChunk(<<"x">>), ToolCallIntent(KnownTool, "{}")>>
    /\ turn["s1"].exec = <<>>
    /\ TurnLog("s1") = <<UserMessage("s1"), AssistantMessage(<<"x">>)>>
    /\ turn["s2"].pc = "done"
    /\ ncalls = MaxModelCalls

\* the position of the first intent among parts, 0 when there is none
FirstIntent(parts) ==
    LET idx == {i \in 1 .. Len(parts) : IsIntent(parts[i])}
    IN IF idx = {} THEN 0 ELSE CHOOSE i \in idx : \A j \in idx : i <= j

\* the handle_input call of s has run to its EndOfTurn and no exception was
\* raised in it
CompletedNormally(s) == turn[s].pc = "done" /\ turn[s].fault = "none"

\* C35: at most one tool call is executed per model response.  Of a response
\* that holds an intent, what reaches the caller is the parts up to the first
\* intent and nothing of the rest; the history holds no assistant message
\* other than the prose forwarded from some response, and as many tool
\* messages as tools were executed; the tools executed never outnumber the
\* model calls, and in a normally completed turn the model calls are the
\* executed tool calls plus one.
C35_OneToolCallPerResponse ==
    \A s \in Sessions :
        LET t == turn[s]
            n == Len(t.replies)
            log == TurnLog(s)
        IN /\ \A k \in 1 .. n :
                 LET produced == Produced(s, k)
                     forwarded == Forwarded(s, k)
                     first == FirstIntent(produced)
                 IN /\ Len(SelectSeq(forwarded, IsIntent)) <= 1
                    /\ first > 0 => Len(forwarded) <= first
                    /\ (first > 0 /\ (k < n \/ t.pc \in {"intent_yielded", "tool"}
                                          \/ CompletedNormally(s))) =>
                          forwarded = SubSeq(produced, 1, first)
           /\ \A i \in 1 .. Len(log) :
                 log[i].role = "assistant" =>
                     \E k \in 1 .. n :
                         log[i].content = TextOf(Forwarded(s, k), 1, Len(Forwarded(s, k)))
           /\ ToolMessages(s) = Len(t.exec)
           /\ Len(t.exec) <= t.calls
           /\ Len(t.exec) <= Intents(s)
           /\ Intents(s) <= n
           /\ CompletedNormally(s) => t.calls = Len(t.exec) + 1

C35_Witness ==
    /\ CompletedNormally("s1")
    /\ turn["s1"].replies[1].frags = << <<"x">> \o DirOk \o <<"y">> \o DirOk >>
    /\ turn["s1"].replies[2].frags = << <<"x">> >>
    /\ turn["s1"].calls = 2
    /\ turn["s1"].exec = <<"returned">>
    /\ turn["s1"].out = <<TextChunk(<<"x">>), ToolCallIntent(KnownTool, "{}"),
                          TextChunk(<<"x">>), EndOfTurn>>
    /\ Len(TurnLog("s1")) = 4

\* role and content of the messages of a log
RolesAndContents(log) ==
    [i \in 1 .. Len(log) |-> [role |-> log[i].role, content |-> log[i].content]]

\* what model call k of the turn of s is to leave in the history: one
\* assistant message with all the prose forwarded from that response, once
\* its intent has come or the turn has ended normally, provided there is
\* prose; then the tool message, once the tool has been executed
LeftByResponse(s, k) ==
    LET t == turn[s]
        n == Len(t.replies)
        forwarded == Forwarded(s, k)
        text == TextOf(forwarded, 1, Len(forwarded))
        hasIntent == forwarded # <<>> /\ IsIntent(Last(forwarded))
        closed == hasIntent \/ (k = n /\ CompletedNormally(s))
        executed == hasIntent /\ (k < n \/ t.pc \notin {"intent_yielded", "tool"})
    IN (IF text # <<>> /\ closed
        THEN <<[role |-> "assistant", content |-> text]>> ELSE <<>>)
       \o (IF executed THEN <<[role |-> "tool", content |-> None]>> ELSE <<>>)

RECURSIVE LeftByResponses(_, _)
LeftByResponses(s, k) ==
    IF k = 0 THEN <<[role |-> "user", content |-> UserMessage(s).content]>>
    ELSE LeftByResponses(s, k - 1) \o LeftByResponse(s, k)

\* C36: the history of a turn is the user message followed, response by
\* response, by at most one assistant message, whose content is the contents
\* of all TextChunks forwarded from that response, in order, joined (ErrorInfo
\* parts in between neither split nor clear it), and by the tool message of
\* the response's intent.
C36_OneAssistantMessagePerResponse ==
    \A s \in Sessions :
        turn[s].pc # "idle" =>
            RolesAndContents(TurnLog(s)) = LeftByResponses(s, Len(turn[s].replies))

C36_Witness ==
    /\ CompletedNormally("s1")
    /\ Len(turn["s1"].replies) = 2
    /\ ReplyText(turn["s1"].replies[2]) = <<"x">> \o DirBadJson \o <<"y">>
    /\ turn["s1"].out = <<TextChunk(<<"x">>), ToolCallIntent(KnownTool, "{}"),
                          TextChunk(<<"x">>),
                          ErrorInfo("Failed to parse/validate tool call JSON.", <<"{", "T">>),
                          TextChunk(<<"y">>), EndOfTurn>>
    /\ RolesAndContents(TurnLog("s1")) =
          <<[role |-> "user", content |-> UserMessage("s1").content],
            [role |-> "assistant", content |-> <<"x">>],
            [role |-> "tool", content |-> None],
            [role |-> "assistant", content |-> <<"x", "y">>]>>

(***************************************************************************)
(* Claims about the end of the turn loop                                   *)
(***************************************************************************)
EndedWithEndOfTurn(s) ==
    /\ turn[s].out # <<>>
    /\ Last(turn[s].out) = EndOfTurn

\* a step that executes a tool of the turn of s
ToolExecuted(s) ==
    /\ turn[s].pc \in {"intent_yielded", "tool"}
    /\ Len(turn'[s].exec) = Len(turn[s].exec) + 1

\* C37: when every model stream ends and every tool call returns or raises,
\* each handle_input call (the n-th of its session) that has begun comes to
\* the point where EndOfTurn is the last part it has emitted.
C37_TurnEndsWithEndOfTurn ==
    \A s \in Sessions : \A n \in 1 .. MaxTurns :
        (nturns[s] = n) ~> (nturns[s] = n /\ EndedWithEndOfTurn(s))

\* C37, as the code has it: each call that has begun comes to its end, by
\* EndOfTurn or by the exception of lines 161-162 leaving the generator
C37_TurnEndsUnlessExceptionEscapes ==
    \A s \in Sessions : \A n \in 1 .. MaxTurns :
        (nturns[s] = n) ~>
            (nturns[s] = n /\ (turn[s].pc = "crashed" \/ EndedWithEndOfTurn(s)))

\* C37, second part: after a tool has been executed the loop always goes back
\* to its top, however many model calls the turn has made; it never ends the
\* turn there
C37_EveryToolCallRePrompts ==
    [][\A s \in Sessions :
          ToolExecuted(s) =>
              /\ turn'[s].pc \in {"stream", "crashed"}
              /\ turn'[s].pc = "stream" => turn'[s].calls = turn[s].calls + 1]_vars

(***************************************************************************)
(* Claims about registry entries and the life of their providers           *)
(* (checked under SpecCoord)                                                *)
(***************************************************************************)
\* the provider that owns the entry under key k
OwnerOf(k) == tool_registry[k].server_id

\* C38: whenever a registry entry exists, its owning provider has signalled
\* ready, is past start-up and not cancelled, and its connection is open (so
\* call_tool finds no entry of a provider that is starting, was cancelled at
\* the start-up timeout or has closed its connection).
C38_EntriesBelongToReadyOpenProviders ==
    \A k \in DOMAIN tool_registry :
        /\ unit[OwnerOf(k)].event
        /\ unit[OwnerOf(k)].pc = "ready"
        /\ ~unit[OwnerOf(k)].cancel
        /\ OwnerOf(k) \in DOMAIN clients

\* C38, as the code has it: the owner of an entry has signalled ready and its
\* connection is in the map, but it may be a provider that initialize has
\* reported failed and cancelled
C38_EntriesBelongToSignalledProviders ==
    \A k \in DOMAIN tool_registry :
        /\ unit[OwnerOf(k)].event
        /\ unit[OwnerOf(k)].pc = "ready"
        /\ OwnerOf(k) \in DOMAIN clients
        /\ unit[OwnerOf(k)].cancel =>
              (OwnerOf(k) \in coord.failed /\ InitializeHasReturned)

\* the map m without the keys in S
Without(m, S) == [k \in DOMAIN m \ S |-> m[k]]

\* C39: a step in which the unit of p exits removes from the registry exactly
\* the entries whose server_id is p and from the connection map only p's
\* connection; every other entry and connection stays as it was, also those
\* of a provider whose id begins with p's id.
C39_ExitingUnitRemovesItsOwnOnly ==
    [][\A p \in Providers :
          UnitExits(p) =>
              /\ tool_registry' = Without(tool_registry, EntriesOf(tool_registry, p))
              /\ clients' = Without(clients, {p})
      ]_vars

\* C39, as the code has it: the exiting unit removes the entries whose key
\* begins with its id and a colon, its own among them, and only its own
\* connection
C39_ExitingUnitRemovesKeysUnderItsPrefix ==
    [][\A p \in Providers :
          UnitExits(p) =>
              /\ tool_registry' =
                    Without(tool_registry,
                            {k \in DOMAIN tool_registry : KeyStartsWithId(k, p)})
              /\ EntriesOf(tool_registry', p) = {}
              /\ clients' = Without(clients, {p})
      ]_vars

(***************************************************************************)
(* Claims about the histories of different sessions (checked under Spec)   *)
(***************************************************************************)
\* the step belongs to the handle_input call of s
StepOf(s) == turn'[s] # turn[s]

\* the step is the one in which handle_input is called for s
CallBegins(s) == nturns'[s] = nturns[s] + 1

\* the step calls the model for s
ModelCalled(s) == turn'[s].calls > turn[s].calls \/ (CallBegins(s) /\ turn'[s].calls = 1)

\* C40: a step of handle_input for s creates the history of s when s has none
\* (and only the first call for s does so), hands the model the history of s
\* and nothing else, and leaves the history of every other session as it was,
\* present or absent; no step removes a history.
C40_SessionsKeepTheirOwnHistories ==
    [][ /\ DOMAIN histories \subseteq DOMAIN histories'
        /\ \A s \in Sessions :
              /\ (s \in DOMAIN histories' /\ s \notin DOMAIN histories) =>
                    /\ CallBegins(s) /\ nturns[s] = 0
                    /\ histories'[s] = <<ChatMessage("user", <<"u", "1">>, NoData, None)>>
              /\ CallBegins(s) => s \in DOMAIN histories'
              /\ ModelCalled(s) => turn'[s].snapshot = histories'[s]
              /\ StepOf(s) =>
                    \A r \in Sessions \ {s} :
                        /\ (r \in DOMAIN histories') = (r \in DOMAIN histories)
                        /\ r \in DOMAIN histories => histories'[r] = histories[r]
      ]_vars

C40_Witness ==
    /\ DOMAIN histories = Sessions
    /\ \A s \in Sessions :
          /\ CompletedNormally(s)
          /\ turn[s].out = <<TextChunk(<<"x">>), EndOfTurn>>
          /\ histories[s] = <<ChatMessage("user", <<"u", "1">>, NoData, None),
                              ChatMessage("assistant", <<"x">>, NoData, None)>>

====
